---- MODULE Spec2Model ----
(***************************************************************************)
(* Model of the cache transfer engine of packages/cache                    *)
(* (src/packages/cache/src/internal/cacheHttpClient.ts): saveCache with   *)
(* its chunked upload, downloadCache, and the two cache lookups.           *)
(*                                                                         *)
(* Scheduling: one thread of control.  Every action below is one turn of   *)
(* the event loop: an I/O completion or a timer, followed by all the       *)
(* promise continuations it makes runnable, up to the next await on I/O.   *)
(***************************************************************************)
EXTENDS Integers, Sequences, FiniteSets, TLC

\* ------------------------------------------------------------------ bounds
MaxFileSize == 3
MaxChunkSize == 2
MaxConcurrency == 2
MaxAttempts == 2

VARIABLES
    \* inputs of saveCache / uploadFile
    fileSize, maxChunkSize, concurrency,
    \* configuration shared by the operations
    blobContainerName, connectionString, cacheUrl,
    \* saveCache / uploadFile
    savePc, upPc, fd, closeCount, offset, workers, patches, acked,
    commits, commitAttempt, blobUploads,
    blobConcurrency, uploadErr, answered, commitStatus,
    \* downloadCache
    useAzureSdk, archiveLocation, cacheKey, dlPc, dlCalls,
    \* getCacheEntry / getCacheEntryBlob
    keys, blobList, lkPc, lkIdx, lkAttempt, lkStatus, lkResult, lkRequests,
    secrets, coreLog, lkBody,
    \* reserveCache and the save flow around it
    flowPc, rsPc, rsAttempt, rsRequests, rsResponse,
    \* getCacheVersion
    vPaths, vPaths0, vPaths2, vMethod, versions, version2,
    \* core: getInput, group
    inEnv, inOptions, inResult, grpName, grpPc, grpLog, grpResult,
    \* io: mkdirP
    mkPath, mkFailsafe, mkFs, mkFs0, mkPc, mkStack, mkTestDir, mkCreated,
    \* io: mv
    mvOptions, mvFs, mvFs0, mvPc, mvLog

cfgVars == <<blobContainerName, connectionString, cacheUrl>>
saveVars == <<fileSize, maxChunkSize, concurrency, savePc, upPc, fd,
              closeCount, offset, workers, patches, acked, commits,
              commitAttempt, blobUploads, blobConcurrency, uploadErr, answered,
              commitStatus>>
dlVars == <<useAzureSdk, archiveLocation, cacheKey, dlPc, dlCalls>>
lkVars == <<keys, blobList, lkPc, lkIdx, lkAttempt, lkStatus, lkResult,
            lkRequests, secrets, coreLog, lkBody>>
rsVars == <<flowPc, rsPc, rsAttempt, rsRequests, rsResponse>>
verVars == <<vPaths, vPaths0, vPaths2, vMethod, versions, version2>>
coreVars == <<inEnv, inOptions, inResult, grpName, grpPc, grpLog, grpResult>>
mvVars == <<mvOptions, mvFs, mvFs0, mvPc, mvLog>>
ioVars == <<mkPath, mkFailsafe, mkFs, mkFs0, mkPc, mkStack, mkTestDir,
            mkCreated, mvVars>>
libVars == <<coreVars, ioVars>>
vars == <<cfgVars, saveVars, dlVars, lkVars, rsVars, verVars, libVars>>

\* What the actions of one operation leave alone.
saveFrame == <<dlVars, lkVars, rsVars, verVars, libVars>>
dlFrame == <<cfgVars, saveVars, lkVars, rsVars, verVars, libVars>>
lkFrame == <<cfgVars, saveVars, dlVars, rsVars, verVars, libVars>>

Min(a, b) == IF a < b THEN a ELSE b

\* A JavaScript string is truthy iff it is not empty.
Truthy(s) == s # ""

\* An ArtifactCacheEntry | null that a lookup has returned, or the error it
\* threw; NoResult before the lookup has settled.
NoResult == [kind |-> "none", cacheKey |-> "", archiveLocation |-> ""]
NullResult == [kind |-> "null", cacheKey |-> "", archiveLocation |-> ""]
ThrownResult == [kind |-> "threw", cacheKey |-> "", archiveLocation |-> ""]
Entry(key, location) ==
    [kind |-> "entry", cacheKey |-> key, archiveLocation |-> location]

ContainerNames == {"", "cache-container"}
ConnectionStrings == {"", "UseDevelopmentStorage=true"}
CacheUrls == {"", "https://cache.example/"}

\* What one HTTP attempt can end in: the status code of the response, or 0
\* when the attempt threw (a transport error, or an error before the request
\* was sent) and there is no status.
Outcomes == {0, 200, 204, 404, 500}

\* ------------------------------------------------------------- requestUtils
\* Mutant of RetryExhausted: the attempts are not counted.
RetryExhaustedNever(attempt) == FALSE

\* retry(): a response whose status is not a server error is returned to the
\* caller; a 5xx response or a thrown error is retried after a delay, and
\* when the attempts are used up the retry throws.
IsSuccessStatusCode(o) == o >= 200 /\ o < 300
IsRetryable(o) == o = 0 \/ o >= 500
RetryExhausted(attempt) == attempt >= MaxAttempts

\* --------------------------------------------------------------- uploadFile
NoRange == [start |-> 0, end |-> -1]
IdleWorker == [pc |-> "idle", start |-> 0, end |-> -1, attempt |-> 0]
DoneWorker == [pc |-> "done", start |-> 0, end |-> -1, attempt |-> 0]

Workers == 1..concurrency

\* Mutant of ClaimRange: the end of the range is not clipped to the file size.
ClaimRangeNoMin(off) ==
    [start |-> off, end |-> off + maxChunkSize - 1, next |-> off + maxChunkSize]

\* Mutant of ClaimRange: end is the first byte after the chunk.
ClaimRangeEndExclusive(off) ==
    LET chunkSize == Min(fileSize - off, maxChunkSize)
    IN  [start |-> off, end |-> off + chunkSize, next |-> off + maxChunkSize]

\* Mutant of ClaimRange: the cursor is not advanced by the claim.
ClaimRangeNoAdvance(off) ==
    LET chunkSize == Min(fileSize - off, maxChunkSize)
    IN  [start |-> off, end |-> off + chunkSize - 1, next |-> off]

\* Lines 359-362: the range a worker claims at cursor off, and the cursor
\* after the claim.
ClaimRange(off) ==
    LET chunkSize == Min(fileSize - off, maxChunkSize)
    IN  [start |-> off, end |-> off + chunkSize - 1, next |-> off + maxChunkSize]

\* openStream() + httpClient.sendStream('PATCH', ...): one PATCH attempt of
\* worker w, reading its range through the shared descriptor.
PatchRequest(w, start, end, attempt, fdState) ==
    [w |-> w, start |-> start, end |-> end, attempt |-> attempt,
     fdOpen |-> fdState = "open"]

\* Mutant of WorkerLoop: the loop also runs with the cursor at the file size.
WorkerLoopInclusive(w, st, fdState) ==
    IF st.offset <= fileSize
    THEN LET r == ClaimRange(st.offset)
         IN  [offset |-> r.next,
              workers |-> [st.workers EXCEPT ![w] =
                  [pc |-> "inflight", start |-> r.start, end |-> r.end,
                   attempt |-> 1]],
              patches |-> st.patches \cup
                  {PatchRequest(w, r.start, r.end, 1, fdState)}]
    ELSE [st EXCEPT !.workers[w] = DoneWorker]

\* The worker's loop head (line 358) up to the await of uploadChunk: st is
\* [offset, workers, patches].
WorkerLoop(w, st, fdState) ==
    IF st.offset < fileSize
    THEN LET r == ClaimRange(st.offset)
         IN  [offset |-> r.next,
              workers |-> [st.workers EXCEPT ![w] =
                  [pc |-> "inflight", start |-> r.start, end |-> r.end,
                   attempt |-> 1]],
              patches |-> st.patches \cup
                  {PatchRequest(w, r.start, r.end, 1, fdState)}]
    ELSE [st EXCEPT !.workers[w] = DoneWorker]

\* Mutant of StartWorkers: a worker does not await its chunk and claims a
\* second one at once.
RECURSIVE StartWorkersNoAwait(_, _)
StartWorkersNoAwait(w, st) ==
    IF w > concurrency THEN st
    ELSE StartWorkersNoAwait(w + 1,
             WorkerLoop(w, WorkerLoop(w, st, "open"), "open"))

\* parallelUploads.map(async () => ...): the workers start one after the
\* other, each running to its first await.
RECURSIVE StartWorkers(_, _)
StartWorkers(w, st) ==
    IF w > concurrency THEN st
    ELSE StartWorkers(w + 1, WorkerLoop(w, st, "open"))

\* Mutant of AllDone: Promise.race in place of Promise.all.
AllDoneRace(ws) == \E w \in DOMAIN ws : ws[w].pc = "done"

AllDone(ws) == \A w \in DOMAIN ws : ws[w].pc = "done"
AnyFailed(ws) == \E w \in DOMAIN ws : ws[w].pc = "failed"

\* ---------------------------------------------------------------- saveCache
\* commitCache's method(): getCacheApiUrl throws without a base URL, else the
\* commit POST goes out with the measured archive size.
\* Mutant of CommitPost: the cursor of the upload is sent as the size.
CommitPostCursor(cs) == IF Truthy(cacheUrl) THEN Append(cs, offset) ELSE cs

CommitPost(cs) == IF Truthy(cacheUrl) THEN Append(cs, fileSize) ELSE cs

\* Mutant of IssueCommit: saveCache ends after the upload, without commit.
IssueCommitSkipped ==
    /\ savePc' = "done"
    /\ UNCHANGED <<commitAttempt, commits>>

\* saveCache after uploadFile has returned (lines 427-434).
IssueCommit ==
    /\ savePc' = "commitCache"
    /\ commitAttempt' = 1
    /\ commits' = CommitPost(commits)

\* Promise.all has resolved: finally closes the descriptor, uploadFile
\* returns and saveCache goes on to the commit.
UploadFileResolves ==
    /\ fd' = "closed"
    /\ closeCount' = closeCount + 1
    /\ upPc' = "returned"
    /\ uploadErr' = uploadErr
    /\ IssueCommit

\* Mutant of UploadFileRejects: the workers' error is swallowed and the save
\* goes on to the commit.
UploadFileRejectsSwallowed(w) == UploadFileResolves

\* Mutant of UploadFileRejects: no finally, the descriptor stays open when a
\* worker fails.
UploadFileRejectsNoClose(w) ==
    /\ upPc' = "threw"
    /\ uploadErr' = [start |-> workers[w].start, end |-> workers[w].end]
    /\ savePc' = "threw"
    /\ UNCHANGED <<fd, closeCount, commits, commitAttempt>>

\* Promise.all has rejected with worker w's error: finally closes the
\* descriptor, uploadFile and saveCache reject.
UploadFileRejects(w) ==
    /\ fd' = "closed"
    /\ closeCount' = closeCount + 1
    /\ upPc' = "threw"
    /\ uploadErr' = [start |-> workers[w].start, end |-> workers[w].end]
    /\ savePc' = "threw"
    /\ UNCHANGED <<commits, commitAttempt>>

\* Mutant of UseBlobUpload: one of the two settings is enough.
UseBlobUploadEither == Truthy(blobContainerName) \/ Truthy(connectionString)

\* Line 340: uploadFile hands the file to the storage SDK when both the
\* container name and the connection string are given.
UseBlobUpload == Truthy(blobContainerName) /\ Truthy(connectionString)

SaveCacheCall ==
    /\ savePc = "start"
    /\ IF UseBlobUpload
       THEN \* uploadFileBlob: the whole file goes to the storage SDK
            /\ savePc' = "uploadFile"
            /\ upPc' = "blob"
            /\ blobUploads' = blobUploads + 1
            /\ blobConcurrency' = concurrency
            /\ UNCHANGED <<fd, closeCount, offset, workers, patches, acked,
                           commits, commitAttempt, uploadErr>>
       ELSE IF ~Truthy(cacheUrl)
       THEN \* getCacheApiUrl throws before the descriptor is opened
            /\ savePc' = "threw"
            /\ upPc' = "threw"
            /\ UNCHANGED <<fd, closeCount, offset, workers, patches, acked,
                           commits, commitAttempt, blobUploads,
                           blobConcurrency, uploadErr>>
       ELSE LET st == StartWorkers(1,
                          [offset |-> 0, workers |-> workers,
                           patches |-> patches])
            IN  /\ offset' = st.offset
                /\ workers' = st.workers
                /\ patches' = st.patches
                /\ UNCHANGED <<acked, blobUploads, blobConcurrency>>
                /\ IF AllDone(st.workers)
                   THEN UploadFileResolves
                   ELSE /\ fd' = "open"
                        /\ upPc' = "awaitAll"
                        /\ savePc' = "uploadFile"
                        /\ UNCHANGED <<closeCount, commits, commitAttempt,
                                       uploadErr>>
    /\ UNCHANGED saveFrame
    /\ UNCHANGED <<answered, commitStatus>>
    /\ UNCHANGED <<fileSize, maxChunkSize, concurrency, cfgVars>>

\* blockBlobClient.uploadStream settles.
BlobUploadDone(ok) ==
    /\ upPc = "blob"
    /\ IF ok
       THEN /\ upPc' = "returned"
            /\ IssueCommit
       ELSE /\ upPc' = "threw"
            /\ savePc' = "threw"
            /\ UNCHANGED <<commits, commitAttempt>>
    /\ UNCHANGED saveFrame
    /\ UNCHANGED <<answered, commitStatus>>
    /\ UNCHANGED <<fileSize, maxChunkSize, concurrency, cfgVars, fd,
                   closeCount, offset, workers, patches, acked, blobUploads,
                   blobConcurrency,
                   uploadErr>>

\* The PATCH attempt that worker w is awaiting.
CurrentPatch(w) ==
    CHOOSE p \in patches : /\ p.w = w /\ p.start = workers[w].start
                           /\ p.attempt = workers[w].attempt

\* A stream opened on a closed descriptor cannot be read: that attempt can
\* only end in an error.
AttemptOutcomes(w) ==
    IF \E p \in patches : /\ p.w = w /\ p.start = workers[w].start
                          /\ p.attempt = workers[w].attempt /\ ~p.fdOpen
    THEN {0}
    ELSE Outcomes

\* The PATCH attempt of worker w ends in outcome o (uploadChunk, lines
\* 273-288, and the worker's loop, lines 358-383).
ChunkResponse(w, o) ==
    /\ w \in Workers
    /\ workers[w].pc = "inflight"
    /\ o \in AttemptOutcomes(w)
    /\ IF IsSuccessStatusCode(o)
       THEN LET r == <<workers[w].start, workers[w].end>>
                st == WorkerLoop(w, [offset |-> offset, workers |-> workers,
                                     patches |-> patches], fd)
            IN  /\ acked' = Append(acked, r)
                /\ offset' = st.offset
                /\ workers' = st.workers
                /\ patches' = st.patches
                /\ IF upPc = "awaitAll" /\ AllDone(st.workers)
                   THEN UploadFileResolves
                   ELSE UNCHANGED <<fd, closeCount, upPc, uploadErr, savePc,
                                    commits, commitAttempt>>
       ELSE IF IsRetryable(o) /\ ~RetryExhausted(workers[w].attempt)
       THEN \* retry: sleep, then attempt again
            /\ workers' = [workers EXCEPT ![w].pc = "sleeping"]
            /\ UNCHANGED <<acked, offset, patches, fd, closeCount, upPc,
                           uploadErr, savePc, commits, commitAttempt>>
       ELSE \* a 4xx response, or the attempts are used up: uploadChunk throws
            /\ workers' = [workers EXCEPT ![w].pc = "failed"]
            /\ UNCHANGED <<acked, offset, patches>>
            /\ IF upPc = "awaitAll"
               THEN UploadFileRejects(w)
               ELSE UNCHANGED <<fd, closeCount, upPc, uploadErr, savePc,
                                commits, commitAttempt>>
    /\ UNCHANGED saveFrame
    /\ answered' = answered \cup {CurrentPatch(w)}
    /\ UNCHANGED commitStatus
    /\ UNCHANGED <<fileSize, maxChunkSize, concurrency, cfgVars,
                   blobUploads, blobConcurrency>>

\* Mutant of RetryRange: the range is computed again from the shared cursor.
RetryRangeFromCursor(w) ==
    [start |-> ClaimRange(offset).start, end |-> ClaimRange(offset).end]

\* The range of a retried attempt: openStream, start and end are the values
\* the worker's closure captured at its claim (lines 359-361, 364-382).
RetryRange(w) == [start |-> workers[w].start, end |-> workers[w].end]

\* The retry delay of worker w is over: method() runs again, opening a new
\* stream over the worker's range.
ChunkRetry(w) ==
    /\ w \in Workers
    /\ workers[w].pc = "sleeping"
    /\ workers' = [workers EXCEPT ![w].pc = "inflight",
                                  ![w].attempt = @ + 1]
    /\ patches' = patches \cup
           {PatchRequest(w, RetryRange(w).start, RetryRange(w).end,
                         workers[w].attempt + 1, fd)}
    /\ UNCHANGED saveFrame
    /\ UNCHANGED <<answered, commitStatus>>
    /\ UNCHANGED <<fileSize, maxChunkSize, concurrency, cfgVars, savePc, upPc,
                   fd, closeCount, offset, acked, commits, commitAttempt,
                   blobUploads, blobConcurrency, uploadErr>>

\* Without a base URL commitCache's method() throws before any request.
CommitOutcomes == IF Truthy(cacheUrl) THEN Outcomes ELSE {0}

\* Mutant of CommitResult: the status test of line 435 is missing.
CommitResultNoCheck(o) ==
    IF IsRetryable(o)
    THEN IF RetryExhausted(commitAttempt) THEN "threw" ELSE "commitSleep"
    ELSE "done"

\* Where saveCache stands after outcome o of a commit attempt: the retry
\* sleeps on a retryable outcome and throws when its attempts are used up;
\* saveCache throws on a returned non-success status (lines 435-439).
CommitResult(o) ==
    IF IsSuccessStatusCode(o) THEN "done"
    ELSE IF IsRetryable(o) /\ ~RetryExhausted(commitAttempt) THEN "commitSleep"
    ELSE "threw"

\* The commit attempt ends in outcome o (commitCache, lines 398-403, and
\* saveCache, lines 434-441).
CommitResponse(o) ==
    /\ savePc = "commitCache"
    /\ o \in CommitOutcomes
    /\ savePc' = CommitResult(o)
    /\ UNCHANGED saveFrame
    /\ commitStatus' = o
    /\ UNCHANGED answered
    /\ UNCHANGED <<fileSize, maxChunkSize, concurrency, cfgVars, upPc, fd,
                   closeCount, offset, workers, patches, acked, commits,
                   commitAttempt, blobUploads, blobConcurrency, uploadErr>>

CommitRetry ==
    /\ savePc = "commitSleep"
    /\ savePc' = "commitCache"
    /\ commitAttempt' = commitAttempt + 1
    /\ commits' = CommitPost(commits)
    /\ UNCHANGED saveFrame
    /\ UNCHANGED <<answered, commitStatus>>
    /\ UNCHANGED <<fileSize, maxChunkSize, concurrency, cfgVars, upPc, fd,
                   closeCount, offset, workers, patches, acked, blobUploads,
                   blobConcurrency,
                   uploadErr>>

\* A reserveCache response: its status code and the cacheId of its result, 0
\* when the result is null or has no cacheId.
NoResponse == [statusCode |-> -1, cacheId |-> 0]

\* The state of saveCache, downloadCache and getCacheEntry before their call.
SaveIdle ==
    /\ savePc = "start"
    /\ upPc = "notCalled"
    /\ fd = "unopened"
    /\ closeCount = 0
    /\ offset = 0
    /\ workers = [w \in 1..concurrency |-> IdleWorker]
    /\ patches = {}
    /\ acked = <<>>
    /\ commits = <<>>
    /\ commitAttempt = 0
    /\ blobUploads = 0
    /\ blobConcurrency = 0
    /\ uploadErr = NoRange
    /\ answered = {}
    /\ commitStatus = 0

DownloadIdle ==
    /\ dlPc = "start"
    /\ dlCalls = <<>>

LookupIdle ==
    /\ lkPc = "start"
    /\ lkIdx = 0
    /\ lkAttempt = 0
    /\ lkStatus = 0
    /\ lkResult = NoResult
    /\ lkRequests = 0
    /\ secrets = {}
    /\ coreLog = <<>>
    /\ lkBody = ""

\* reserveCache and the save flow are not running.
ReserveIdle ==
    /\ flowPc = "none"
    /\ rsPc = "start"
    /\ rsAttempt = 0
    /\ rsRequests = 0
    /\ rsResponse = NoResponse

\* mv has not been called.
MvIdle ==
    /\ mvOptions = <<>>
    /\ mvFs = <<>>
    /\ mvFs0 = <<>>
    /\ mvPc = "start"
    /\ mvLog = <<>>

\* getInput, group and mkdirP have not been called.
NoInputResult == [kind |-> "none", value |-> <<>>]
NoGroupResult == [kind |-> "none", value |-> ""]
LibIdle ==
    /\ inEnv = <<>>
    /\ inOptions = [given |-> FALSE, required |-> "undefined",
                    trimWhitespace |-> "undefined"]
    /\ inResult = NoInputResult
    /\ grpName = ""
    /\ grpPc = "start"
    /\ grpLog = <<>>
    /\ grpResult = NoGroupResult
    /\ mkPath = <<>>
    /\ mkFailsafe = 0
    /\ mkFs = <<>>
    /\ mkFs0 = <<>>
    /\ mkPc = "start"
    /\ mkStack = <<>>
    /\ mkTestDir = <<>>
    /\ mkCreated = <<>>
    /\ MvIdle

\* getCacheVersion has not been called.
VersionIdle ==
    /\ vPaths = <<>>
    /\ vPaths0 = <<>>
    /\ vPaths2 = <<>>
    /\ vMethod = <<>>
    /\ versions = <<>>
    /\ version2 = <<>>

ConfigInit ==
    /\ blobContainerName \in ContainerNames
    /\ connectionString \in ConnectionStrings
    /\ cacheUrl \in CacheUrls

InitSave ==
    /\ ConfigInit
    /\ fileSize \in 0..MaxFileSize
    /\ maxChunkSize \in 1..MaxChunkSize
    /\ concurrency \in 1..MaxConcurrency
    /\ SaveIdle
    /\ useAzureSdk = FALSE
    /\ archiveLocation = <<>>
    /\ cacheKey = ""
    /\ DownloadIdle
    /\ keys = <<"key-a">>
    /\ blobList = <<>>
    /\ LookupIdle
    /\ ReserveIdle
    /\ LibIdle
    /\ VersionIdle

NextSave ==
    \/ SaveCacheCall
    \/ \E ok \in BOOLEAN : BlobUploadDone(ok)
    \/ \E w \in 1..MaxConcurrency, o \in Outcomes : ChunkResponse(w, o)
    \/ \E w \in 1..MaxConcurrency : ChunkRetry(w)
    \/ \E o \in Outcomes : CommitResponse(o)
    \/ CommitRetry

SpecSave == InitSave /\ [][NextSave]_vars

\* Every awaited chunk request settles and every retry timer fires: the
\* event loop resumes each worker of uploadFile (lines 355-386) whose await
\* has settled. Nothing obliges the storage SDK or the commit to answer.
ChunkUploadsReturn ==
    \A w \in 1..MaxConcurrency :
        /\ WF_vars(\E o \in Outcomes : ChunkResponse(w, o))
        /\ WF_vars(ChunkRetry(w))

SpecSaveFair == SpecSave /\ ChunkUploadsReturn

\* ------------------------------------------------- reserveCache and save flow
\* The cacheId of a reservation; 0 stands for a result that is null or has no
\* cacheId.
CacheIds == {0, 1}

\* What one POST attempt of reserveCache can end in; 409 is the answer for a
\* key that is already reserved.
ReserveOutcomes == IF Truthy(cacheUrl) THEN Outcomes \cup {409} ELSE {0}

\* Mutant of ReserveBlobResponse: the direct-storage reservation carries a
\* cacheId.
ReserveBlobResponseWithId == [statusCode |-> 0, cacheId |-> 1]

\* Mutant of ReserveBlobResponse: the direct-storage reservation reports a
\* success status.
ReserveBlobResponseSuccess == [statusCode |-> 200, cacheId |-> 0]

\* Lines 218-225: with a container name and a connection string reserveCache
\* answers at once, statusCode 0 and a null result.
ReserveBlobResponse == [statusCode |-> 0, cacheId |-> 0]

\* The typed response of a POST the retry handed back: the result of a
\* non-success response is null.
ReserveHttpResponse(o, id) ==
    [statusCode |-> o, cacheId |-> IF IsSuccessStatusCode(o) THEN id ELSE 0]

\* The state of uploadFile and saveCache apart from where saveCache stands.
saveRest == <<upPc, fd, closeCount, offset, workers, patches, acked, commits,
              commitAttempt, blobUploads,
              blobConcurrency, uploadErr, answered, commitStatus>>

\* The save flow after Reserve: a ticket without cacheId ends the flow with
\* nothing to do, else Upload and Commit follow (saveCache is called).
FlowAfterReserve(resp) ==
    IF resp.cacheId = 0
    THEN /\ flowPc' = "skipped"
         /\ UNCHANGED savePc
    ELSE /\ flowPc' = "saving"
         /\ savePc' = "start"

\* reserveCache returns resp to the flow.
ReserveCacheReturns(resp) ==
    /\ rsResponse' = resp
    /\ rsPc' = "returned"
    /\ FlowAfterReserve(resp)

\* One run of the retried method of reserveCache (lines 235-240):
\* getCacheApiUrl throws without a base URL, else the POST goes out.
ReserveAttempt(n) ==
    /\ rsAttempt' = n
    /\ rsPc' = "awaitPost"
    /\ rsRequests' = IF Truthy(cacheUrl) THEN rsRequests + 1 ELSE rsRequests

\* The save flow starts and calls reserveCache (lines 211-242).
SaveFlowCall ==
    /\ flowPc = "none"
    /\ IF Truthy(blobContainerName) /\ Truthy(connectionString)
       THEN /\ ReserveCacheReturns(ReserveBlobResponse)
            /\ UNCHANGED <<rsAttempt, rsRequests>>
       ELSE /\ ReserveAttempt(1)
            /\ flowPc' = "reserving"
            /\ UNCHANGED <<rsResponse, savePc>>
    /\ UNCHANGED <<fileSize, maxChunkSize, concurrency, cfgVars, saveRest,
                   dlVars, lkVars, verVars, libVars>>

\* The POST attempt ends in outcome o, a success body carrying cacheId id.
ReserveResponse(o, id) ==
    /\ rsPc = "awaitPost"
    /\ o \in ReserveOutcomes
    /\ IF IsRetryable(o)
       THEN /\ IF RetryExhausted(rsAttempt)
               THEN /\ rsPc' = "threw"
                    /\ flowPc' = "threw"
               ELSE /\ rsPc' = "sleep"
                    /\ UNCHANGED flowPc
            /\ UNCHANGED <<rsResponse, savePc>>
       ELSE ReserveCacheReturns(ReserveHttpResponse(o, id))
    /\ UNCHANGED <<rsAttempt, rsRequests>>
    /\ UNCHANGED <<fileSize, maxChunkSize, concurrency, cfgVars, saveRest,
                   dlVars, lkVars, verVars, libVars>>

ReserveRetry ==
    /\ rsPc = "sleep"
    /\ ReserveAttempt(rsAttempt + 1)
    /\ UNCHANGED <<flowPc, rsResponse, savePc>>
    /\ UNCHANGED <<fileSize, maxChunkSize, concurrency, cfgVars, saveRest,
                   dlVars, lkVars, verVars, libVars>>

\* The largest archive of the save flow, in bytes.
MaxFlowFileSize == 2

\* The state before the save flow: saveCache is not callable until the flow
\* holds a cacheId.
InitSaveFlow ==
    /\ ConfigInit
    /\ fileSize \in 0..MaxFlowFileSize
    /\ maxChunkSize \in 1..MaxChunkSize
    /\ concurrency \in 1..MaxConcurrency
    /\ savePc = "notCalled"
    /\ upPc = "notCalled"
    /\ fd = "unopened"
    /\ closeCount = 0
    /\ offset = 0
    /\ workers = [w \in 1..concurrency |-> IdleWorker]
    /\ patches = {}
    /\ acked = <<>>
    /\ commits = <<>>
    /\ commitAttempt = 0
    /\ blobUploads = 0
    /\ blobConcurrency = 0
    /\ uploadErr = NoRange
    /\ answered = {}
    /\ commitStatus = 0
    /\ useAzureSdk = FALSE
    /\ archiveLocation = <<>>
    /\ cacheKey = ""
    /\ DownloadIdle
    /\ keys = <<"key-a">>
    /\ blobList = <<>>
    /\ LookupIdle
    /\ ReserveIdle
    /\ LibIdle
    /\ VersionIdle

NextSaveFlow ==
    \/ SaveFlowCall
    \/ \E o \in Outcomes \cup {409}, id \in CacheIds : ReserveResponse(o, id)
    \/ ReserveRetry
    \/ SaveCacheCall
    \/ \E w \in 1..MaxConcurrency, o \in Outcomes : ChunkResponse(w, o)
    \/ \E w \in 1..MaxConcurrency : ChunkRetry(w)
    \/ \E o \in Outcomes : CommitResponse(o)
    \/ CommitRetry

SpecSaveFlow == InitSaveFlow /\ [][NextSaveFlow]_vars

\* ------------------------------------------------- properties of saveCache
BlobMode == Truthy(blobContainerName) /\ Truthy(connectionString)
Ceil(a, b) == (a + b - 1) \div b
AckedSet == {acked[i] : i \in DOMAIN acked}
Bytes(r) == r[1]..r[2]

\* The partition of [0, fileSize-1] into ranges of maxChunkSize bytes, the
\* last one shorter when maxChunkSize does not divide fileSize.
Partition ==
    {<<k * maxChunkSize, Min((k + 1) * maxChunkSize, fileSize) - 1>> :
        k \in 0..(Ceil(fileSize, maxChunkSize) - 1)}

\* C1: in cache-service mode a commit POST has been issued only if a
\* successful PATCH was acknowledged for every range of the partition of
\* [0, fileSize-1], whatever the order of the acknowledgements.
C1_CommitAfterAllChunksAcked ==
    (~BlobMode /\ commits # <<>>) => (\A r \in Partition : r \in AckedSet)

\* C1 witness: a commit was issued after chunks were acknowledged out of
\* order.
C1_Witness ==
    /\ ~BlobMode
    /\ commits # <<>>
    /\ \E i, j \in DOMAIN acked : i < j /\ acked[i][1] > acked[j][1]

\* C2: when uploadFile has returned in cache-service mode, exactly
\* ceil(fileSize/maxChunkSize) ranges were uploaded, they are the partition:
\* contiguous, pairwise disjoint, with union [0, fileSize-1]; and an empty
\* file is uploaded with no PATCH at all and uploadFile returns.
C2_UploadedRangesPartitionFile ==
    /\ (~BlobMode /\ upPc = "returned") =>
          /\ Len(acked) = Ceil(fileSize, maxChunkSize)
          /\ Cardinality(AckedSet) = Len(acked)
          /\ \A r \in AckedSet : r[1] <= r[2]
          /\ \A r1, r2 \in AckedSet : r1 # r2 => Bytes(r1) \cap Bytes(r2) = {}
          /\ UNION {Bytes(r) : r \in AckedSet} = 0..(fileSize - 1)
          /\ \A r \in AckedSet :
                r[1] = 0 \/ \E q \in AckedSet : q[2] + 1 = r[1]
    /\ (~BlobMode /\ Truthy(cacheUrl) /\ fileSize = 0 /\ savePc # "start") =>
          /\ upPc = "returned"
          /\ patches = {}

\* C2 witness: uploadFile returned after uploading several chunks, the last
\* one shorter than maxChunkSize.
C2_Witness ==
    /\ ~BlobMode
    /\ upPc = "returned"
    /\ Len(acked) >= 2
    /\ fileSize % maxChunkSize # 0

\* C3: once a chunk upload has ended in failure, uploadFile and saveCache
\* have rejected and no commit POST has been issued.
C3_ChunkFailureFailsSave ==
    AnyFailed(workers) =>
        /\ upPc = "threw"
        /\ savePc = "threw"
        /\ commits = <<>>

\* C3 witness: a chunk failed by using up its attempts after another chunk
\* had been acknowledged.
C3_Witness ==
    /\ \E w \in DOMAIN workers :
          workers[w].pc = "failed" /\ workers[w].attempt = MaxAttempts
    /\ acked # <<>>
    /\ savePc = "threw"

\* The PATCH requests that start the upload of a chunk (first attempts).
ChunkStarts == {p \in patches : p.attempt = 1}

\* C4: once a chunk upload has failed, no worker claims a new range (the
\* cursor stays) and no upload of a new chunk starts.
C4_NoNewChunkAfterFailure ==
    [][AnyFailed(workers) =>
          (offset' = offset /\ ChunkStarts' = ChunkStarts)]_vars

\* C7: the descriptor is open exactly while uploadFile awaits its workers, and
\* when uploadFile has left the chunked path it has been closed exactly once.
C7_FdClosedExactlyOnce ==
    /\ closeCount <= 1
    /\ (fd = "open") <=> (upPc = "awaitAll")
    /\ (fd = "closed") <=> (closeCount = 1)
    /\ (fd # "unopened" /\ upPc \in {"returned", "threw"}) => closeCount = 1

\* C7 witness: the descriptor was closed on the first fatal chunk error while
\* a sibling's chunk was still in flight.
C7_Witness ==
    /\ fd = "closed"
    /\ closeCount = 1
    /\ upPc = "threw"
    /\ \E w \in DOMAIN workers : workers[w].pc = "inflight"

\* C18: saveCache completes only after a commit POST answered with a success
\* status, and once the commit has settled with any other outcome saveCache
\* has thrown, also when every chunk was uploaded.
C18_SaveSucceedsOnlyOnCommitSuccess ==
    /\ (savePc = "done") =>
          /\ commits # <<>>
          /\ IsSuccessStatusCode(commitStatus)
    /\ (upPc = "returned" /\ savePc \notin {"commitCache", "commitSleep"}
           /\ ~IsSuccessStatusCode(commitStatus))
          => savePc = "threw"

\* C18 witness: every chunk of a non-empty file was acknowledged and the
\* commit POST answered with a non-success status that is not retried.
C18_Witness ==
    /\ ~BlobMode
    /\ fileSize > 0
    /\ \A r \in Partition : r \in AckedSet
    /\ commits # <<>>
    /\ commitStatus = 404
    /\ savePc = "threw"

\* C19: a range is claimed by exactly one worker, the PATCH requests of
\* different claims cover disjoint bytes, the cursor has advanced by
\* maxChunkSize per claim, and it never decreases.
C19_RangesClaimedOnce ==
    /\ [](/\ \A p, q \in ChunkStarts : p.start = q.start => p = q
          /\ \A p, q \in patches :
                (Bytes(<<p.start, p.end>>) \cap Bytes(<<q.start, q.end>>) # {})
                    => (p.w = q.w /\ p.start = q.start /\ p.end = q.end)
          /\ offset = Cardinality(ChunkStarts) * maxChunkSize)
    /\ [][/\ offset' >= offset
          /\ offset' - offset =
                (Cardinality(ChunkStarts') - Cardinality(ChunkStarts))
                    * maxChunkSize]_vars

\* C19 witness: two workers have claimed ranges and one of them a second
\* range after its first was acknowledged.
C19_Witness ==
    /\ \E p, q \in ChunkStarts : p.w # q.w
    /\ \E p, q \in ChunkStarts : p.w = q.w /\ p.start < q.start
    /\ offset > maxChunkSize

\* The PATCH requests that have not been answered.
Outstanding == patches \ answered

\* C20: at most concurrency chunk uploads are outstanding, and at most one
\* per worker.
C20_OutstandingBoundedByConcurrency ==
    /\ Cardinality(Outstanding) <= concurrency
    /\ \A w \in DOMAIN workers :
          Cardinality({p \in Outstanding : p.w = w}) <= 1
    /\ \A p \in Outstanding : workers[p.w].pc = "inflight"

\* C20 witness: as many uploads as workers are outstanding after earlier
\* uploads were answered.
C20_Witness ==
    /\ concurrency > 1
    /\ Cardinality(Outstanding) = concurrency
    /\ answered # {}

\* The number of bytes of a PATCH request.
ChunkLength(p) == p.end - p.start + 1

\* C21: every range that uploadFile uploads lies in the file, is not empty
\* and not longer than maxChunkSize, and every range but the one that ends
\* at the last byte has exactly maxChunkSize bytes.
C21_ChunkRangesWithinBounds ==
    \A p \in patches :
        /\ 0 <= p.start /\ p.start <= p.end /\ p.end <= fileSize - 1
        /\ 1 <= ChunkLength(p) /\ ChunkLength(p) <= maxChunkSize
        /\ (p.end # fileSize - 1) => ChunkLength(p) = maxChunkSize

\* C21 witness: a full chunk and a shorter tail chunk were uploaded.
C21_Witness ==
    \E p, q \in patches :
        /\ ChunkLength(p) = maxChunkSize
        /\ q.end = fileSize - 1
        /\ ChunkLength(q) < maxChunkSize

\* C22: with a container name and a connection string uploadFile makes one
\* blob upload of the whole file with the configured concurrency, sends no
\* PATCH and opens no descriptor; when one of them is missing it makes no
\* blob upload and uploads in chunks.
C22_BlobUploadBypassesChunking ==
    (upPc # "notCalled") =>
        /\ BlobMode =>
              /\ blobUploads = 1
              /\ blobConcurrency = concurrency
              /\ patches = {}
              /\ fd = "unopened" /\ closeCount = 0
        /\ ~BlobMode =>
              /\ blobUploads = 0
              /\ (Truthy(cacheUrl) /\ fileSize > 0) =>
                    (patches # {} /\ fd # "unopened")

\* C22 witness: the blob upload of a non-empty file with more than one worker
\* configured has returned.
C22_Witness ==
    /\ BlobMode
    /\ fileSize > 0
    /\ concurrency > 1
    /\ upPc = "returned"

RECURSIVE SumLengths(_)
SumLengths(S) ==
    IF S = {} THEN 0
    ELSE LET r == CHOOSE x \in S : TRUE
         IN  (r[2] - r[1] + 1) + SumLengths(S \ {r})

\* C25: when a cache-service save has succeeded, every commit POST carried
\* the archive size, and the archive size is the sum of the lengths of the
\* uploaded chunks.
C25_CommitSizeIsArchiveSize ==
    (~BlobMode /\ savePc = "done") =>
        /\ \A i \in DOMAIN commits : commits[i] = fileSize
        /\ Len(acked) = Cardinality(AckedSet)
        /\ SumLengths(AckedSet) = fileSize

\* C25 witness: a save of several chunks with a shorter tail chunk succeeded.
C25_Witness ==
    /\ ~BlobMode
    /\ savePc = "done"
    /\ Len(acked) > 1
    /\ fileSize % maxChunkSize # 0

\* C29: no PATCH request reads through the descriptor after uploadFile has
\* closed it.
C29_NoStreamAfterClose ==
    \A p \in patches : p.fdOpen

\* C30: every retried PATCH carries the range of the first attempt of its
\* worker's claim, and one claim is retried by one worker only.
C30_RetriesReuseClaimedRange ==
    \A p \in patches :
        (p.attempt > 1) =>
            /\ \E q \in patches :
                  /\ q.attempt = p.attempt - 1
                  /\ q.w = p.w /\ q.start = p.start /\ q.end = p.end
            /\ \A q \in patches :
                  (q.start = p.start) => (q.w = p.w /\ q.end = p.end)

\* C30 witness: a chunk was sent again after another worker had moved the
\* cursor past it.
C30_Witness ==
    \E p, q \in patches :
        /\ p.attempt > 1
        /\ q.w # p.w
        /\ q.start > p.start
        /\ p.fdOpen

\* C13: without a cache-service URL no network call is attempted: no lookup
\* GET, no reservation POST, no chunk PATCH, no blob upload and no commit
\* POST; and no operation that resolves the URL ends well.
C13_NoUrlNoNetworkCall ==
    ~Truthy(cacheUrl) =>
        /\ lkRequests = 0
        /\ rsRequests = 0
        /\ patches = {}
        /\ commits = <<>>
        /\ blobUploads = 0
        /\ savePc # "done"
        /\ ~BlobMode => (lkPc # "returned" /\ rsPc # "returned")

\* C17: a reservation response with a non-success status carries no cacheId,
\* and after a reservation without cacheId the save flow has ended without
\* error, saveCache was not called, and no chunk PATCH, no blob upload and no
\* commit POST was issued.
C17_NoCacheIdSkipsUploadAndCommit ==
    /\ (rsPc = "returned" /\ ~IsSuccessStatusCode(rsResponse.statusCode))
          => rsResponse.cacheId = 0
    /\ (rsPc = "returned" /\ rsResponse.cacheId = 0) =>
          /\ flowPc = "skipped"
          /\ savePc = "notCalled"
          /\ upPc = "notCalled"
          /\ patches = {}
          /\ blobUploads = 0
          /\ commits = <<>>

\* C17 witness: the service answered that the key is already reserved and the
\* flow ended with nothing done.
C17_Witness ==
    /\ rsPc = "returned"
    /\ rsResponse.statusCode = 409
    /\ rsRequests > 0
    /\ flowPc = "skipped"

\* ------------------------------------------------------------ downloadCache
\* A URL's hostname as its sequence of labels; <<>> stands for an entry
\* without archiveLocation.
BlobDomain == <<"blob", "core", "windows", "net">>
ArchiveLocations ==
    {<<>>,
     <<"acct", "blob", "core", "windows", "net">>,
     <<"blob", "core", "windows", "net">>,
     <<"cache", "example">>}
CacheKeys == {"", "key-a"}

\* Lines 184-186: cacheEntry.archiveLocation ?? 'https://NoArchiveLocationFound.com',
\* then new URL(...).hostname.
ArchiveHostname(location) ==
    IF location = <<>> THEN <<"noarchivelocationfound", "com">> ELSE location

\* hostname.endsWith('.blob.core.windows.net'): the domain's labels end the
\* hostname and a dot, hence one more label, comes before them.
IsSuffix(suffix, host) ==
    /\ Len(host) >= Len(suffix)
    /\ SubSeq(host, Len(host) - Len(suffix) + 1, Len(host)) = suffix
EndsWithBlobDomain(host) ==
    IsSuffix(BlobDomain, host) /\ Len(host) > Len(BlobDomain)

\* Line 189-192: the condition of the first if.
UseStorageSDK ==
    useAzureSdk /\ EndsWithBlobDomain(ArchiveHostname(archiveLocation))

\* Line 196: the condition of the second if.
UseBlobStorage ==
    Truthy(blobContainerName) /\ Truthy(connectionString) /\ Truthy(cacheKey)

\* Lines 196-207: the second if and its else, up to the await.
SecondIf(calls) ==
    IF UseBlobStorage
    THEN /\ dlCalls' = Append(calls, "downloadCacheBlobStorage")
         /\ dlPc' = "awaitBlobStorage"
    ELSE /\ dlCalls' = Append(calls, "downloadCacheHttpClient")
         /\ dlPc' = "awaitHttpClient"

DownloadCacheCall ==
    /\ dlPc = "start"
    /\ IF UseStorageSDK
       THEN /\ dlCalls' = Append(dlCalls, "downloadCacheStorageSDK")
            /\ dlPc' = "awaitStorageSDK"
       ELSE SecondIf(dlCalls)
    /\ UNCHANGED <<useAzureSdk, archiveLocation, cacheKey>>
    /\ UNCHANGED dlFrame

\* The awaited download strategy resolves (ok) or rejects.
DownloadSettles(ok) ==
    /\ dlPc \in {"awaitStorageSDK", "awaitBlobStorage", "awaitHttpClient"}
    /\ IF ~ok
       THEN /\ dlPc' = "threw"
            /\ UNCHANGED dlCalls
       ELSE IF dlPc = "awaitStorageSDK"
       THEN SecondIf(dlCalls)
       ELSE /\ dlPc' = "done"
            /\ UNCHANGED dlCalls
    /\ UNCHANGED <<useAzureSdk, archiveLocation, cacheKey>>
    /\ UNCHANGED dlFrame

InitDownload ==
    /\ ConfigInit
    /\ useAzureSdk \in BOOLEAN
    /\ archiveLocation \in ArchiveLocations
    /\ cacheKey \in CacheKeys
    /\ DownloadIdle
    /\ fileSize = 0
    /\ maxChunkSize = 1
    /\ concurrency = 1
    /\ SaveIdle
    /\ keys = <<"key-a">>
    /\ blobList = <<>>
    /\ LookupIdle
    /\ ReserveIdle
    /\ LibIdle
    /\ VersionIdle

NextDownload ==
    \/ DownloadCacheCall
    \/ \E ok \in BOOLEAN : DownloadSettles(ok)

SpecDownload == InitDownload /\ [][NextDownload]_vars

\* ---------------------------------------------- properties of downloadCache
DlCalled(strategy) == \E i \in DOMAIN dlCalls : dlCalls[i] = strategy

\* C5: one call of downloadCache invokes exactly one download strategy: never
\* two, and one when the call has completed.
C5_ExactlyOneStrategy ==
    /\ Len(dlCalls) <= 1
    /\ dlPc = "done" => Len(dlCalls) = 1

\* C6: the strategies are chosen by priority: the storage SDK when
\* SDK downloads are enabled and the host is a blob-storage host; the direct
\* blob download only when that does not hold and a container and a
\* connection string were supplied; the HTTP client only when neither holds.
C6_StrategyPriority ==
    LET sdk == useAzureSdk /\ EndsWithBlobDomain(ArchiveHostname(archiveLocation))
        \* supplied, together with the key the blob is downloaded by
        direct == /\ Truthy(blobContainerName) /\ Truthy(connectionString)
                  /\ Truthy(cacheKey)
    IN  /\ DlCalled("downloadCacheStorageSDK") => sdk
        /\ DlCalled("downloadCacheBlobStorage") => (~sdk /\ direct)
        /\ DlCalled("downloadCacheHttpClient") => (~sdk /\ ~direct)
        /\ dlPc # "start" =>
              /\ sdk => DlCalled("downloadCacheStorageSDK")
              /\ (~sdk /\ direct) => DlCalled("downloadCacheBlobStorage")
              /\ (~sdk /\ ~direct) => DlCalled("downloadCacheHttpClient")

\* ---------------------------------------------------------- getCacheVersion
MaxPathLen == 2
MaxPaths == 2
MaxCalls == 2
MaxPairPathLen == 3

\* Strings are sequences of characters. Paths are written with an ordinary
\* character and the character that join() puts between the components.
PathChars == {"a", "|"}
SeqsOf(S, lo, hi) == UNION {[1..n -> S] : n \in lo..hi}
PathsUpTo(len) == SeqsOf(PathChars, 1, len)
PathLists(len) == SeqsOf(PathsUpTo(len), 0, MaxPaths)

\* CompressionMethod; NoMethod is an absent argument.
NoMethod == <<>>
Gzip == <<"g", "z", "i", "p">>
Zstd == <<"z", "s", "t", "d">>
ZstdWithoutLong ==
    <<"z", "s", "t", "d", "-", "w", "i", "t", "h", "o", "u", "t", "-",
      "l", "o", "n", "g">>
CompressionMethods == {NoMethod, Gzip, Zstd, ZstdWithoutLong}

versionSalt == <<"1", ".", "0">>

\* components.join(sep)
RECURSIVE Join(_, _)
Join(components, sep) ==
    IF components = <<>> THEN <<>>
    ELSE IF Len(components) = 1 THEN components[1]
    ELSE components[1] \o <<sep>> \o Join(Tail(components), sep)

\* crypto.createHash('sha256').update(s).digest('hex'), taken as free of
\* collisions: the digest stands for the string that was hashed.
Sha256Hex(s) == <<"sha256:">> \o s

\* Mutant of VersionComponents: the compression method is left out.
VersionComponentsNoMethod(paths, compressionMethod) == Append(paths, versionSalt)

\* Lines 85-92: the paths, then the compression method unless it is absent
\* or gzip, then the salt.
VersionComponents(paths, compressionMethod) ==
    Append(paths \o (IF compressionMethod = NoMethod \/ compressionMethod = Gzip
                     THEN <<>>
                     ELSE <<compressionMethod>>),
           versionSalt)

\* Mutant of GetCacheVersion: the components are pushed onto the caller's
\* list.
GetCacheVersionPushInPlace(paths, compressionMethod) ==
    LET components == VersionComponents(paths, compressionMethod)
    IN  [version |-> Sha256Hex(Join(components, "|")), paths |-> components]

\* getCacheVersion (lines 81-98): the version it returns and the caller's
\* list after the call; paths.concat builds a new list.
GetCacheVersion(paths, compressionMethod) ==
    LET components == VersionComponents(paths, compressionMethod)
    IN  [version |-> Sha256Hex(Join(components, "|")), paths |-> paths]

\* A caller computes the version of its list under method m.
GetCacheVersionCall(m) ==
    /\ Len(versions) < MaxCalls
    /\ LET r == GetCacheVersion(vPaths, m)
       IN  /\ versions' = Append(versions, [method |-> m, version |-> r.version])
           /\ vPaths' = r.paths
    /\ UNCHANGED <<vPaths0, vPaths2, vMethod, version2>>
    /\ UNCHANGED <<cfgVars, saveVars, dlVars, lkVars, rsVars, libVars>>

\* A caller computes the versions of two lists under the same method.
GetCacheVersionPair ==
    /\ versions = <<>>
    /\ LET r1 == GetCacheVersion(vPaths, vMethod)
           r2 == GetCacheVersion(vPaths2, vMethod)
       IN  /\ versions' = <<[method |-> vMethod, version |-> r1.version]>>
           /\ version2' = r2.version
           /\ vPaths' = r1.paths
           /\ vPaths2' = r2.paths
    /\ UNCHANGED <<vPaths0, vMethod>>
    /\ UNCHANGED <<cfgVars, saveVars, dlVars, lkVars, rsVars, libVars>>

\* No other operation runs while versions are computed.
OthersIdle ==
    /\ blobContainerName = ""
    /\ connectionString = ""
    /\ cacheUrl = ""
    /\ fileSize = 0
    /\ maxChunkSize = 1
    /\ concurrency = 1
    /\ SaveIdle
    /\ useAzureSdk = FALSE
    /\ archiveLocation = <<>>
    /\ cacheKey = ""
    /\ DownloadIdle
    /\ keys = <<"key-a">>
    /\ blobList = <<>>
    /\ LookupIdle
    /\ ReserveIdle

InitVersion ==
    /\ OthersIdle
    /\ LibIdle
    /\ vPaths \in PathLists(MaxPathLen)
    /\ vPaths0 = vPaths
    /\ vPaths2 = <<>>
    /\ vMethod = NoMethod
    /\ versions = <<>>
    /\ version2 = <<>>

NextVersion == \E m \in CompressionMethods : GetCacheVersionCall(m)

SpecVersion == InitVersion /\ [][NextVersion]_vars

InitVersionPair ==
    /\ OthersIdle
    /\ LibIdle
    /\ vPaths \in PathLists(MaxPairPathLen)
    /\ vPaths0 = vPaths
    /\ vPaths2 \in PathLists(MaxPairPathLen)
    /\ vMethod \in CompressionMethods
    /\ versions = <<>>
    /\ version2 = <<>>

NextVersionPair == GetCacheVersionPair

SpecVersionPair == InitVersionPair /\ [][NextVersionPair]_vars

\* ------------------------------------------------ properties of the versions
\* C14: two different path lists under the same compression method have
\* different versions.
C14_DistinctPathListsDistinctVersions ==
    (versions # <<>> /\ vPaths0 # vPaths2) => versions[1].version # version2

GzipLike(m) == m = NoMethod \/ m = Gzip

\* C15: under gzip the hashed list is the paths and the salt, without a
\* compression token; under another method m it holds m after the paths;
\* and the two versions of the same paths differ.
C15_CompressionTokenOnlyWhenNotGzip ==
    /\ \A i \in DOMAIN versions :
          /\ (versions[i].method = Gzip) =>
                versions[i].version =
                    Sha256Hex(Join(vPaths0 \o <<versionSalt>>, "|"))
          /\ ~GzipLike(versions[i].method) =>
                versions[i].version =
                    Sha256Hex(Join(vPaths0 \o <<versions[i].method, versionSalt>>,
                                   "|"))
    /\ \A i, j \in DOMAIN versions :
          (versions[i].method = Gzip /\ ~GzipLike(versions[j].method))
              => versions[i].version # versions[j].version

\* C15 witness: the version of a non-empty list was computed under gzip and
\* under zstd.
C15_Witness ==
    /\ vPaths0 # <<>>
    /\ \E i, j \in DOMAIN versions :
          versions[i].method = Gzip /\ versions[j].method = Zstd

\* C16: calls with the same paths and the same method return the same
\* version, a call without method returns the version of gzip, and no call
\* changes the caller's list.
C16_VersionDeterministicAndPure ==
    /\ vPaths = vPaths0
    /\ \A i, j \in DOMAIN versions :
          (\/ versions[i].method = versions[j].method
           \/ (GzipLike(versions[i].method) /\ GzipLike(versions[j].method)))
              => versions[i].version = versions[j].version

\* C16 witness: the version of a non-empty list was computed without method
\* and then under gzip.
C16_Witness ==
    /\ vPaths0 # <<>>
    /\ Len(versions) > 1
    /\ versions[1].method = NoMethod
    /\ versions[2].method = Gzip

\* ------------------------------------------- getCacheEntry, getCacheEntryBlob
MaxKeys == 3
MaxBlobs == 3
KeyNames == {"key-a", "key-b", "key-c"}
BlobNames == KeyNames \cup {"other"}
DownloadUrls == {"", "https://acct.blob.core.windows.net/c/a?sig=s"}

Range(f) == {f[i] : i \in DOMAIN f}
\* The sequences without repetition over S, of length lo to hi.
InjectiveSeqs(S, lo, hi) ==
    UNION {{q \in [1..n -> S] : \A i, j \in 1..n : i # j => q[i] # q[j]} :
              n \in lo..hi}

\* Lines 106-107.
PrimaryKey(ks) == ks[1]
NotPrimaryKey(ks) == SubSeq(ks, 2, Len(ks))

\* Mutant of MatchBlob: the fallback keys are not compared.
MatchBlobPrimaryOnly(name, ks) ==
    IF name = PrimaryKey(ks) THEN Entry(PrimaryKey(ks), "") ELSE NoResult

\* Lines 113-127: what the loop body returns for one listed blob, NoResult
\* when the blob matches no key and the loop goes on.
MatchBlob(name, ks) ==
    IF name = PrimaryKey(ks) THEN Entry(PrimaryKey(ks), "")
    ELSE IF \E key \in Range(NotPrimaryKey(ks)) : name = key
    THEN Entry(name, "")
    ELSE NoResult

\* core.debug / core.setSecret calls, in order.
LogEntry(fn, text) == [fn |-> fn, text |-> text]

\* One run of the retried method of getCacheEntry (line 156): getCacheApiUrl
\* throws without a base URL, else it logs the resource URL and the GET goes
\* out.
LookupAttempt(n) ==
    /\ lkAttempt' = n
    /\ lkPc' = "awaitGet"
    /\ IF Truthy(cacheUrl)
       THEN /\ lkRequests' = lkRequests + 1
            /\ coreLog' = Append(coreLog, LogEntry("debug", "Resource Url"))
       ELSE UNCHANGED <<lkRequests, coreLog>>

GetCacheEntryCall ==
    /\ lkPc = "start"
    /\ IF Truthy(blobContainerName) /\ Truthy(connectionString)
       THEN /\ lkPc' = "listing"
            /\ lkIdx' = 1
            /\ UNCHANGED <<lkAttempt, lkRequests, coreLog>>
       ELSE /\ LookupAttempt(1)
            /\ UNCHANGED lkIdx
    /\ UNCHANGED <<keys, blobList, lkStatus, lkResult, secrets, lkBody>>
    /\ UNCHANGED lkFrame

\* for await (const blob of blobList): the next blob of the listing, or its
\* end.
ListNextBlob ==
    /\ lkPc = "listing"
    /\ IF lkIdx > Len(blobList)
       THEN /\ lkResult' = NullResult
            /\ lkPc' = "returned"
            /\ UNCHANGED lkIdx
       ELSE LET hit == MatchBlob(blobList[lkIdx], keys)
            IN  IF hit # NoResult
                THEN /\ lkResult' = hit
                     /\ lkPc' = "returned"
                     /\ UNCHANGED lkIdx
                ELSE /\ lkIdx' = lkIdx + 1
                     /\ UNCHANGED <<lkResult, lkPc>>
    /\ UNCHANGED <<keys, blobList, lkAttempt, lkStatus, lkRequests, secrets,
                   coreLog, lkBody>>
    /\ UNCHANGED lkFrame

\* Mutant of HandleLookupResponse: the 204 test of lines 158-160 is missing.
HandleLookupResponseNo204(status, key, url) ==
    /\ lkStatus' = status
    /\ lkBody' = url
    /\ IF ~IsSuccessStatusCode(status) \/ ~Truthy(url)
       THEN /\ lkResult' = ThrownResult
            /\ lkPc' = "threw"
            /\ UNCHANGED <<secrets, coreLog>>
       ELSE /\ secrets' = secrets \cup {url}
            /\ coreLog' = coreLog \o <<LogEntry("setSecret", url),
                                       LogEntry("debug", "Cache Result:"),
                                       LogEntry("debug", url)>>
            /\ lkResult' = Entry(key, url)
            /\ lkPc' = "returned"

\* Mutant of HandleLookupResponse: the archiveLocation test of lines 166-168
\* is missing.
HandleLookupResponseNoLocationCheck(status, key, url) ==
    /\ lkStatus' = status
    /\ lkBody' = url
    /\ IF status = 204
       THEN /\ lkResult' = NullResult
            /\ lkPc' = "returned"
            /\ UNCHANGED <<secrets, coreLog>>
       ELSE IF ~IsSuccessStatusCode(status)
       THEN /\ lkResult' = ThrownResult
            /\ lkPc' = "threw"
            /\ UNCHANGED <<secrets, coreLog>>
       ELSE /\ secrets' = secrets \cup {url}
            /\ coreLog' = coreLog \o <<LogEntry("setSecret", url),
                                       LogEntry("debug", "Cache Result:"),
                                       LogEntry("debug", url)>>
            /\ lkResult' = Entry(key, url)
            /\ lkPc' = "returned"

\* Mutant of HandleLookupResponse: the entry is logged before setSecret.
HandleLookupResponseLogFirst(status, key, url) ==
    /\ lkStatus' = status
    /\ lkBody' = url
    /\ IF status = 204
       THEN /\ lkResult' = NullResult
            /\ lkPc' = "returned"
            /\ UNCHANGED <<secrets, coreLog>>
       ELSE IF ~IsSuccessStatusCode(status) \/ ~Truthy(url)
       THEN /\ lkResult' = ThrownResult
            /\ lkPc' = "threw"
            /\ UNCHANGED <<secrets, coreLog>>
       ELSE /\ secrets' = secrets \cup {url}
            /\ coreLog' = coreLog \o <<LogEntry("debug", "Cache Result:"),
                                       LogEntry("debug", url),
                                       LogEntry("setSecret", url)>>
            /\ lkResult' = Entry(key, url)
            /\ lkPc' = "returned"

\* Lines 158-174: the response the retry handed back, with the cacheKey and
\* archiveLocation of its body.
HandleLookupResponse(status, key, url) ==
    /\ lkStatus' = status
    /\ lkBody' = url
    /\ IF status = 204
       THEN /\ lkResult' = NullResult
            /\ lkPc' = "returned"
            /\ UNCHANGED <<secrets, coreLog>>
       ELSE IF ~IsSuccessStatusCode(status)
       THEN /\ lkResult' = ThrownResult
            /\ lkPc' = "threw"
            /\ UNCHANGED <<secrets, coreLog>>
       ELSE IF ~Truthy(url)
       THEN /\ lkResult' = ThrownResult
            /\ lkPc' = "threw"
            /\ UNCHANGED <<secrets, coreLog>>
       ELSE /\ secrets' = secrets \cup {url}
            /\ coreLog' = coreLog \o <<LogEntry("setSecret", url),
                                       LogEntry("debug", "Cache Result:"),
                                       LogEntry("debug", url)>>
            /\ lkResult' = Entry(key, url)
            /\ lkPc' = "returned"

\* Without a base URL the method throws before any request; a 204 response
\* has no body.
LookupOutcomes == IF Truthy(cacheUrl) THEN Outcomes ELSE {0}
BodyUrls(o) == IF o = 204 \/ ~IsSuccessStatusCode(o) THEN {""} ELSE DownloadUrls

\* The GET attempt ends in outcome o, a success body naming key and url
\* (retryTypedResponse, lines 155-157, then lines 158-174).
LookupResponse(o, key, url) ==
    /\ lkPc = "awaitGet"
    /\ o \in LookupOutcomes
    /\ key \in Range(keys)
    /\ url \in BodyUrls(o)
    /\ IF IsRetryable(o)
       THEN /\ lkStatus' = o
            /\ lkBody' = ""
            /\ IF RetryExhausted(lkAttempt)
               THEN /\ lkResult' = ThrownResult
                    /\ lkPc' = "threw"
               ELSE /\ lkPc' = "sleep"
                    /\ UNCHANGED lkResult
            /\ UNCHANGED <<secrets, coreLog>>
       ELSE HandleLookupResponse(o, key, url)
    /\ UNCHANGED <<keys, blobList, lkIdx, lkAttempt, lkRequests>>
    /\ UNCHANGED lkFrame

LookupRetry ==
    /\ lkPc = "sleep"
    /\ LookupAttempt(lkAttempt + 1)
    /\ UNCHANGED <<keys, blobList, lkIdx, lkStatus, lkResult, secrets, lkBody>>
    /\ UNCHANGED lkFrame

InitLookup ==
    /\ ConfigInit
    /\ keys \in InjectiveSeqs(KeyNames, 1, MaxKeys)
    /\ blobList \in InjectiveSeqs(BlobNames, 0, MaxBlobs)
    /\ LookupIdle
    /\ fileSize = 0
    /\ maxChunkSize = 1
    /\ concurrency = 1
    /\ SaveIdle
    /\ useAzureSdk = FALSE
    /\ archiveLocation = <<>>
    /\ cacheKey = ""
    /\ DownloadIdle
    /\ ReserveIdle
    /\ LibIdle
    /\ VersionIdle

NextLookup ==
    \/ GetCacheEntryCall
    \/ ListNextBlob
    \/ \E o \in Outcomes, key \in KeyNames, url \in DownloadUrls :
          LookupResponse(o, key, url)
    \/ LookupRetry

SpecLookup == InitLookup /\ [][NextLookup]_vars

\* ------------------------------------------------- a job: restore, then save
\* The largest archive of a job, in bytes.
MaxJobFileSize == 1

\* A job looks its keys up and, when the lookup has settled, runs the save
\* flow.
LookupSettled == lkPc \in {"returned", "threw"}

InitJob ==
    /\ InitSaveFlow
    /\ fileSize <= MaxJobFileSize

NextJob ==
    \/ NextLookup
    \/ (LookupSettled /\ NextSaveFlow)

SpecJob == InitJob /\ [][NextJob]_vars

\* --------------------------------------- lookups of entries of other versions
\* The blobs of the container were stored by saves of the path list vPaths2
\* under method vMethod; getCacheEntry is called with the path list vPaths
\* and the same method, in direct-storage mode.
InitLookupVersions ==
    /\ blobContainerName = "cache-container"
    /\ connectionString = "UseDevelopmentStorage=true"
    /\ cacheUrl \in CacheUrls
    /\ keys \in InjectiveSeqs(KeyNames, 1, MaxKeys)
    /\ blobList \in InjectiveSeqs(BlobNames, 0, MaxBlobs)
    /\ LookupIdle
    /\ fileSize = 0
    /\ maxChunkSize = 1
    /\ concurrency = 1
    /\ SaveIdle
    /\ useAzureSdk = FALSE
    /\ archiveLocation = <<>>
    /\ cacheKey = ""
    /\ DownloadIdle
    /\ ReserveIdle
    /\ LibIdle
    /\ vPaths \in PathLists(1)
    /\ vPaths0 = vPaths
    /\ vPaths2 \in PathLists(1)
    /\ vMethod \in {Gzip, Zstd}
    /\ versions = <<>>
    /\ version2 = <<>>

NextLookupVersions ==
    \/ GetCacheEntryCall
    \/ ListNextBlob

SpecLookupVersions == InitLookupVersions /\ [][NextLookupVersions]_vars

\* -------------------------------------------------- properties of the lookups
DirectStorage == Truthy(blobContainerName) /\ Truthy(connectionString)
Listed(name) == name \in Range(blobList)
\* The position of a key k of keys in keys.
KeyIndex(k) == CHOOSE i \in DOMAIN keys : keys[i] = k

\* C8: when the listing holds a blob named as the primary key and a blob
\* named as a fallback key, direct-storage lookup returns the primary key.
C8_PrimaryKeyPreferred ==
    (/\ DirectStorage
     /\ lkPc = "returned"
     /\ Listed(PrimaryKey(keys))
     /\ \E k \in Range(NotPrimaryKey(keys)) : Listed(k))
    => lkResult = Entry(PrimaryKey(keys), "")

\* C9: when no blob is named as the primary key, direct-storage lookup
\* returns the listed fallback key that comes first in keys, and null only
\* when no blob is named as any key.
C9_EarliestFallbackPreferred ==
    (/\ DirectStorage
     /\ lkPc = "returned"
     /\ ~Listed(PrimaryKey(keys)))
    => /\ (lkResult = NullResult) <=> (\A k \in Range(keys) : ~Listed(k))
       /\ lkResult # NullResult =>
             /\ lkResult.cacheKey \in Range(keys)
             /\ Listed(lkResult.cacheKey)
             /\ \A k \in Range(keys) :
                   Listed(k) => KeyIndex(lkResult.cacheKey) <= KeyIndex(k)

\* C10: after a 204 answer getCacheEntry has returned null, not thrown, no
\* secret is registered and no download strategy was started.
C10_NoMatchReturnsNull ==
    (lkStatus = 204) =>
        /\ lkPc = "returned"
        /\ lkResult = NullResult
        /\ secrets = {}
        /\ \A i \in DOMAIN coreLog : coreLog[i].fn # "setSecret"
        /\ dlCalls = <<>> /\ dlPc = "start"

\* C10 witness: the service answered 204 to a retried lookup.
C10_Witness ==
    /\ lkStatus = 204
    /\ lkPc = "returned"
    /\ lkAttempt > 1
    /\ lkRequests = lkAttempt

\* getCacheEntry has settled through the cache service.
ServiceLookupSettled == ~DirectStorage /\ lkPc \in {"returned", "threw"}

\* C11: in cache-service lookup a last status that is neither 204 nor a
\* success makes getCacheEntry throw, a success status whose body has no
\* archiveLocation makes it throw, and it returns an entry only for a success
\* status other than 204 with a non-empty archiveLocation.
C11_LookupThrowsOrReturnsEntry ==
    ServiceLookupSettled =>
        /\ (lkStatus # 204 /\ ~IsSuccessStatusCode(lkStatus)) => lkPc = "threw"
        /\ (lkStatus # 204 /\ IsSuccessStatusCode(lkStatus) /\ ~Truthy(lkBody))
              => lkPc = "threw"
        /\ (lkPc = "threw") <=> (lkResult = ThrownResult)
        /\ (lkResult.kind = "entry") <=>
              /\ IsSuccessStatusCode(lkStatus)
              /\ lkStatus # 204
              /\ Truthy(lkBody)
        /\ (lkResult.kind = "entry") => lkResult.archiveLocation = lkBody

\* C11 witness: a success response without archiveLocation made the lookup
\* throw.
C11_Witness ==
    /\ ServiceLookupSettled
    /\ IsSuccessStatusCode(lkStatus) /\ lkStatus # 204
    /\ ~Truthy(lkBody)
    /\ lkPc = "threw"

\* The log lines that carry a download URL.
UrlLogLines ==
    {i \in DOMAIN coreLog :
        coreLog[i].fn = "debug" /\ coreLog[i].text \in DownloadUrls \ {""}}

\* C12: the download URL of a returned entry is a registered secret when the
\* entry is returned, and every log line that carries the URL comes after the
\* setSecret call for it.
C12_SecretBeforeReturnAndLog ==
    /\ (lkPc = "returned" /\ lkResult.kind = "entry"
           /\ Truthy(lkResult.archiveLocation))
          => lkResult.archiveLocation \in secrets
    /\ \A i \in UrlLogLines :
          \E j \in 1..(i - 1) :
              coreLog[j] = LogEntry("setSecret", coreLog[i].text)

\* C12 witness: an entry with a download URL was returned and logged.
C12_Witness ==
    /\ lkPc = "returned"
    /\ lkResult.kind = "entry"
    /\ Truthy(lkResult.archiveLocation)
    /\ UrlLogLines # {}

\* C24: a lookup returns a stored entry only if the version of the lookup's
\* paths and method is the version the entry was stored under.
C24_VersionTakesPartInMatch ==
    (lkPc = "returned" /\ lkResult.kind = "entry") =>
        GetCacheVersion(vPaths, vMethod).version
            = GetCacheVersion(vPaths2, vMethod).version

\* ------------------------------------------------------ properties of a job
\* C23: the lookup GET, the reserve POST, each chunk PATCH and the commit
\* POST are attempted at most MaxAttempts times, and an operation waits for
\* another attempt only while it has attempts left.
C23_AttemptsBounded ==
    /\ lkAttempt <= MaxAttempts /\ lkRequests <= MaxAttempts
    /\ rsAttempt <= MaxAttempts /\ rsRequests <= MaxAttempts
    /\ \A p \in patches : p.attempt <= MaxAttempts
    /\ commitAttempt <= MaxAttempts /\ Len(commits) <= MaxAttempts
    /\ (lkPc = "sleep") => lkAttempt < MaxAttempts
    /\ (rsPc = "sleep") => rsAttempt < MaxAttempts
    /\ \A w \in DOMAIN workers :
          (workers[w].pc = "sleeping") => workers[w].attempt < MaxAttempts
    /\ (savePc = "commitSleep") => commitAttempt < MaxAttempts

\* C23 witness: in one job the lookup, the reservation, a chunk and the
\* commit each took their last attempt.
C23_Witness ==
    /\ lkAttempt = MaxAttempts
    /\ rsAttempt = MaxAttempts
    /\ \E p \in patches : p.attempt = MaxAttempts
    /\ commitAttempt = MaxAttempts
    /\ savePc \in {"done", "threw"}

\* ------------------------------------------------------------ core: getInput
MaxValueLen == 2

\* The characters of an input value: a whitespace and another character.
ValueChars == {" ", "x"}
WhiteSpace == {" "}
\* process.env[...] when the variable is not set.
Undefined == <<"undefined">>
EnvValues == {Undefined} \cup SeqsOf(ValueChars, 0, MaxValueLen)

\* InputOptions (lines 11-17): no options, or required and trimWhitespace
\* each absent, true or false.
TriState == {"undefined", "true", "false"}
NoOptions ==
    [given |-> FALSE, required |-> "undefined", trimWhitespace |-> "undefined"]
InputOptions ==
    {NoOptions} \cup
    [given : {TRUE}, required : TriState, trimWhitespace : TriState]

\* String.prototype.trim
RECURSIVE TrimStart(_)
TrimStart(v) ==
    IF v # <<>> /\ Head(v) \in WhiteSpace THEN TrimStart(Tail(v)) ELSE v
RECURSIVE TrimEnd(_)
TrimEnd(v) ==
    IF v # <<>> /\ v[Len(v)] \in WhiteSpace
    THEN TrimEnd(SubSeq(v, 1, Len(v) - 1))
    ELSE v
Trim(v) == TrimEnd(TrimStart(v))

\* process.env[...] || ''
EnvOrEmpty(env) == IF env = Undefined THEN <<>> ELSE env

InputThrown == [kind |-> "threw", value |-> <<>>]
InputReturned(v) == [kind |-> "returned", value |-> v]

\* Mutant of GetInput: required is tested on the trimmed value.
GetInputRequiredAfterTrim(env, options) ==
    LET val == EnvOrEmpty(env)
    IN  IF options.given /\ options.required = "true" /\ Trim(val) = <<>>
        THEN InputThrown
        ELSE IF options.given /\ options.trimWhitespace = "false"
        THEN InputReturned(val)
        ELSE InputReturned(Trim(val))

\* getInput (lines 89-101)
GetInput(env, options) ==
    LET val == EnvOrEmpty(env)
    IN  IF options.given /\ options.required = "true" /\ val = <<>>
        THEN InputThrown
        ELSE IF options.given /\ options.trimWhitespace = "false"
        THEN InputReturned(val)
        ELSE InputReturned(Trim(val))

GetInputCall ==
    /\ inResult = NoInputResult
    /\ inResult' = GetInput(inEnv, inOptions)
    /\ UNCHANGED <<inEnv, inOptions, grpName, grpPc, grpLog, grpResult>>
    /\ UNCHANGED <<cfgVars, saveVars, dlVars, lkVars, rsVars, verVars, ioVars>>

\* --------------------------------------------------------------- core: group
GroupNames == {"build", "test"}
FnValues == {"v1", "v2"}
\* How fn() settles: its promise resolves with a value or rejects, or fn
\* throws before it returns a promise.
FnOutcomes ==
    [kind : {"resolved"}, value : FnValues] \cup
    [kind : {"rejected", "threwSync"}, value : {"error"}]

Command(cmd, arg) == [cmd |-> cmd, arg |-> arg]

\* Mutant of GroupSettles: endGroup is called after the await, not in a
\* finally block.
GroupSettlesNoFinally(outcome) ==
    /\ grpLog' = grpLog \o
          (IF outcome.kind = "resolved"
           THEN <<Command("fn-" \o outcome.kind, outcome.value),
                  Command("endgroup", "")>>
           ELSE <<Command("fn-" \o outcome.kind, outcome.value)>>)
    /\ IF outcome.kind = "resolved"
       THEN /\ grpPc' = "returned"
            /\ grpResult' = [kind |-> "returned", value |-> outcome.value]
       ELSE /\ grpPc' = "threw"
            /\ grpResult' = [kind |-> "threw", value |-> outcome.value]

\* Lines 251-257: fn has settled; finally calls endGroup, then group returns
\* the result or the error goes on to the caller.
GroupSettles(outcome) ==
    /\ grpLog' = grpLog \o <<Command("fn-" \o outcome.kind, outcome.value),
                              Command("endgroup", "")>>
    /\ IF outcome.kind = "resolved"
       THEN /\ grpPc' = "returned"
            /\ grpResult' = [kind |-> "returned", value |-> outcome.value]
       ELSE /\ grpPc' = "threw"
            /\ grpResult' = [kind |-> "threw", value |-> outcome.value]

\* group(name, fn) up to its await (lines 246-252): startGroup, then fn is
\* called.
GroupCall ==
    /\ grpPc = "start"
    /\ grpLog' = grpLog \o <<Command("group", grpName), Command("fn-start", "")>>
    /\ grpPc' = "awaitFn"
    /\ UNCHANGED <<grpName, grpResult, inEnv, inOptions, inResult>>
    /\ UNCHANGED <<cfgVars, saveVars, dlVars, lkVars, rsVars, verVars, ioVars>>

\* fn() settles with outcome.
FnSettles(outcome) ==
    /\ grpPc = "awaitFn"
    /\ GroupSettles(outcome)
    /\ UNCHANGED <<grpName, inEnv, inOptions, inResult>>
    /\ UNCHANGED <<cfgVars, saveVars, dlVars, lkVars, rsVars, verVars, ioVars>>

\* mkdirP has not been called.
MkdirIdle ==
    /\ mkPath = <<>>
    /\ mkFailsafe = 0
    /\ mkFs = <<>>
    /\ mkFs0 = <<>>
    /\ mkPc = "start"
    /\ mkStack = <<>>
    /\ mkTestDir = <<>>
    /\ mkCreated = <<>>

InitCore ==
    /\ OthersIdle
    /\ VersionIdle
    /\ MkdirIdle
    /\ MvIdle
    /\ inEnv \in EnvValues
    /\ inOptions \in InputOptions
    /\ inResult = NoInputResult
    /\ grpName \in GroupNames
    /\ grpPc = "start"
    /\ grpLog = <<>>
    /\ grpResult = NoGroupResult

NextCore ==
    \/ GetInputCall
    \/ GroupCall
    \/ \E outcome \in FnOutcomes : FnSettles(outcome)

SpecCore == InitCore /\ [][NextCore]_vars

\* ------------------------------------------------------- properties of core
\* The positions of command cmd in the log.
Positions(cmd) == {i \in DOMAIN grpLog : grpLog[i].cmd = cmd}
FnSettledAt ==
    Positions("fn-resolved") \cup Positions("fn-rejected")
        \cup Positions("fn-threwSync")

\* C26: group issues startGroup with its name before fn starts, no endGroup
\* while fn is pending, and exactly one endGroup after fn has settled,
\* whether fn resolved or rejected; it returns the value fn resolved with and
\* throws what fn rejected with.
C26_GroupBracketsFn ==
    /\ (grpPc # "start") =>
          /\ grpLog[1] = Command("group", grpName)
          /\ Cardinality(Positions("group")) = 1
          /\ \A i \in Positions("fn-start") : i > 1
    /\ (grpPc = "awaitFn") => Positions("endgroup") = {}
    /\ (grpPc \in {"returned", "threw"}) =>
          /\ Cardinality(Positions("endgroup")) = 1
          /\ Cardinality(FnSettledAt) = 1
          /\ \A i \in Positions("endgroup"), j \in FnSettledAt : j < i
          /\ \A j \in FnSettledAt :
                /\ (grpLog[j].cmd = "fn-resolved") <=> (grpPc = "returned")
                /\ grpResult.value = grpLog[j].arg
          /\ (grpPc = "returned") <=> (grpResult.kind = "returned")
          /\ (grpPc = "threw") <=> (grpResult.kind = "threw")

\* C26 witness: fn rejected and group has thrown after its endGroup.
C26_Witness ==
    /\ grpPc = "threw"
    /\ Positions("fn-rejected") # {}
    /\ Positions("endgroup") # {}

\* A string of n whitespace characters.
Spaces(n) == [i \in 1..n |-> " "]
\* v is val without its leading and trailing whitespace.
IsTrimOf(v, val) ==
    /\ \E i, j \in 0..Len(val) : val = Spaces(i) \o v \o Spaces(j)
    /\ v # <<>> => (v[1] \notin WhiteSpace /\ v[Len(v)] \notin WhiteSpace)

\* C27: getInput throws exactly when required is set and the environment
\* value is missing or empty; otherwise it returns the value, the empty
\* string when it is undefined, trimmed unless trimWhitespace is false.
C27_GetInputRequiredAndTrim ==
    (inResult # NoInputResult) =>
        LET missing == inEnv = Undefined \/ inEnv = <<>>
            val == IF inEnv = Undefined THEN <<>> ELSE inEnv
        IN  /\ (inResult.kind = "threw") <=>
                  (inOptions.given /\ inOptions.required = "true" /\ missing)
            /\ (inResult.kind = "returned") =>
                  IF inOptions.given /\ inOptions.trimWhitespace = "false"
                  THEN inResult.value = val
                  ELSE IsTrimOf(inResult.value, val)

\* C36: with required set, a call of getInput that returns, returns a value
\* that is not the empty string.
C36_RequiredInputNeverEmpty ==
    (inOptions.given /\ inOptions.required = "true"
       /\ inResult.kind = "returned")
        => inResult.value # <<>>

\* C27 witness: a required input of whitespace only was returned trimmed.
C27_Witness ==
    /\ inOptions.given /\ inOptions.required = "true"
    /\ inOptions.trimWhitespace # "false"
    /\ inEnv # Undefined /\ inEnv # <<>>
    /\ inEnv[1] \in WhiteSpace
    /\ inResult = InputReturned(<<>>)

\* ------------------------------------------------------------------- mkdirP
\* The number of directory levels below the root.
MaxDepth == 3
\* The default of the loop guard (line 611).
MkdirpFailsafe == 1000

\* A path is the sequence of its components, the root first; the empty
\* sequence is the empty string. The file system is a chain of directory
\* levels below one root.
ChainPath(n) == [i \in 1..n |-> IF i = 1 THEN "/" ELSE "d"]
AllPaths == {ChainPath(n) : n \in 1..(MaxDepth + 1)}
EntryKinds == {"none", "dir", "file"}

\* path.dirname: the root is its own parent.
Dirname(p) == IF Len(p) <= 1 THEN p ELSE SubSeq(p, 1, Len(p) - 1)

\* The file systems there can be: an entry exists only in a directory that
\* exists, and the root is a directory when it exists.
FileSystems ==
    {f \in [AllPaths -> EntryKinds] :
        /\ f[ChainPath(1)] # "file"
        /\ \A p \in AllPaths :
              (Len(p) > 1 /\ f[p] # "none") => f[Dirname(p)] = "dir"}

\* p and its ancestors, the root included.
SelfAndAncestors(p) == {SubSeq(p, 1, n) : n \in 1..Len(p)}
\* An ancestor of p is a file.
UnderFile(f, p) == \E q \in SelfAndAncestors(p) \ {p} : f[q] = "file"

\* fs.promises.stat(p): the kind of the entry, or the error code.
Stat(f, p) ==
    IF f[p] # "none" THEN f[p]
    ELSE IF UnderFile(f, p) THEN "ENOTDIR"
    ELSE "ENOENT"

\* fs.promises.mkdir(p), not recursive: "ok" or the error code; allowed is
\* false when the system refuses the call (EACCES).
Mkdir(f, p, allowed) ==
    IF f[p] # "none" THEN "EEXIST"
    ELSE IF UnderFile(f, p) THEN "ENOTDIR"
    ELSE IF Len(p) > 1 /\ f[Dirname(p)] = "none" THEN "ENOENT"
    ELSE IF ~allowed THEN "EACCES"
    ELSE "ok"

\* Mutant of PopDir: stack.shift() in place of stack.pop().
PopDirShift(stack) == [dir |-> Head(stack), rest |-> Tail(stack)]

\* stack.pop() (lines 654, 657): the directory pushed last, which is the one
\* nearest to the existing ancestor.
PopDir(stack) ==
    [dir |-> stack[Len(stack)], rest |-> SubSeq(stack, 1, Len(stack) - 1)]

\* The head of the while loop (lines 609-618) with stack and testDir: the
\* loop guard, then the await of stat.
MkdirLoopHead(stack, testDir) ==
    /\ mkStack' = stack
    /\ mkTestDir' = testDir
    /\ mkPc' = IF Len(stack) >= mkFailsafe THEN "failsafeMkdir" ELSE "stat"

\* Lines 653-658: the next directory of the stack is created, or mkdirP
\* returns when the stack is empty.
MkdirNext(stack) ==
    /\ mkStack' = stack
    /\ mkPc' = IF stack = <<>> THEN "returned" ELSE "mkdir"

\* mkdirP(fsPath) up to its first await (lines 598-618).
MkdirPCall ==
    /\ mkPc = "start"
    /\ IF mkPath = <<>>
       THEN /\ mkPc' = "threw:parameter"
            /\ UNCHANGED <<mkStack, mkTestDir>>
       ELSE MkdirLoopHead(<<>>, mkPath)
    /\ UNCHANGED <<mkPath, mkFailsafe, mkFs, mkFs0, mkCreated>>
    /\ UNCHANGED <<cfgVars, saveVars, dlVars, lkVars, rsVars,
                   verVars, coreVars, mvVars>>

\* stat(testDir) settles (lines 618-650).
StatSettles ==
    /\ mkPc = "stat"
    /\ LET r == Stat(mkFs, mkTestDir)
           parentDir == Dirname(mkTestDir)
       IN  IF r = "ENOENT"
           THEN IF mkTestDir = parentDir
                THEN /\ mkPc' = "threw:root"
                     /\ UNCHANGED <<mkStack, mkTestDir>>
                ELSE MkdirLoopHead(Append(mkStack, mkTestDir), parentDir)
           ELSE IF r = "ENOTDIR"
           THEN /\ mkPc' = "threw:ENOTDIR"
                /\ UNCHANGED <<mkStack, mkTestDir>>
           ELSE IF r # "dir"
           THEN /\ mkPc' = "threw:conflict"
                /\ UNCHANGED <<mkStack, mkTestDir>>
           ELSE /\ MkdirNext(mkStack)
                /\ UNCHANGED mkTestDir
    /\ UNCHANGED <<mkPath, mkFailsafe, mkFs, mkFs0, mkCreated>>
    /\ UNCHANGED <<cfgVars, saveVars, dlVars, lkVars, rsVars,
                   verVars, coreVars, mvVars>>

\* mkdir(dir) of the create loop settles (lines 655-658).
MkdirSettles(allowed) ==
    /\ mkPc = "mkdir"
    /\ LET top == PopDir(mkStack)
           r == Mkdir(mkFs, top.dir, allowed)
       IN  IF r = "ok"
           THEN /\ mkFs' = [mkFs EXCEPT ![top.dir] = "dir"]
                /\ mkCreated' = Append(mkCreated, top.dir)
                /\ MkdirNext(top.rest)
           ELSE /\ mkPc' = "threw:" \o r
                /\ UNCHANGED <<mkFs, mkCreated, mkStack>>
    /\ UNCHANGED <<mkPath, mkFailsafe, mkFs0, mkTestDir>>
    /\ UNCHANGED <<cfgVars, saveVars, dlVars, lkVars, rsVars,
                   verVars, coreVars, mvVars>>

\* mkdir(fsPath) of the loop guard settles (lines 613-614).
FailsafeMkdirSettles(allowed) ==
    /\ mkPc = "failsafeMkdir"
    /\ LET r == Mkdir(mkFs, mkPath, allowed)
       IN  IF r = "ok"
           THEN /\ mkFs' = [mkFs EXCEPT ![mkPath] = "dir"]
                /\ mkCreated' = Append(mkCreated, mkPath)
                /\ mkPc' = "returned"
           ELSE /\ mkPc' = "threw:failsafe"
                /\ UNCHANGED <<mkFs, mkCreated>>
    /\ UNCHANGED <<mkPath, mkFailsafe, mkFs0, mkStack, mkTestDir>>
    /\ UNCHANGED <<cfgVars, saveVars, dlVars, lkVars, rsVars,
                   verVars, coreVars, mvVars>>

\* getInput and group have not been called.
CoreIdle ==
    /\ inEnv = <<>>
    /\ inOptions = NoOptions
    /\ inResult = NoInputResult
    /\ grpName = ""
    /\ grpPc = "start"
    /\ grpLog = <<>>
    /\ grpResult = NoGroupResult

\* TEST_MKDIRP_FAILSAFE is not set, or set to 1.
InitMkdirP ==
    /\ OthersIdle
    /\ VersionIdle
    /\ CoreIdle
    /\ MvIdle
    /\ mkPath \in AllPaths \cup {<<>>}
    /\ mkFailsafe \in {MkdirpFailsafe, 1}
    /\ mkFs \in FileSystems
    /\ mkFs0 = mkFs
    /\ mkPc = "start"
    /\ mkStack = <<>>
    /\ mkTestDir = <<>>
    /\ mkCreated = <<>>

NextMkdirP ==
    \/ MkdirPCall
    \/ StatSettles
    \/ \E allowed \in BOOLEAN : MkdirSettles(allowed)
    \/ \E allowed \in BOOLEAN : FailsafeMkdirSettles(allowed)

SpecMkdirP == InitMkdirP /\ [][NextMkdirP]_vars

\* ----------------------------------------------------- properties of mkdirP
\* The entries of p's ancestry that existed before the call.
ExistingBefore(p) == {q \in SelfAndAncestors(p) : mkFs0[q] # "none"}
\* The nearest existing ancestor of p (or p itself) before the call is not a
\* directory.
NearestIsNotDirectory(p) == \E q \in ExistingBefore(p) : mkFs0[q] = "file"
CreatedSet == {mkCreated[i] : i \in DOMAIN mkCreated}

\* C28: when mkdirP has returned, p and all its ancestors are directories;
\* what it creates are missing entries of p's ancestry, each after its
\* parent, starting below the nearest existing ancestor, so that no mkdir of
\* the create loop fails for a missing parent or an existing entry; and when
\* p is empty or the nearest existing ancestor is not a directory it throws
\* and creates nothing.
C28_MkdirPCreatesFullPath ==
    /\ (mkPc = "returned") =>
          \A q \in SelfAndAncestors(mkPath) : mkFs[q] = "dir"
    /\ \A p \in AllPaths : (mkFs[p] # mkFs0[p]) <=> (p \in CreatedSet)
    /\ \A i \in DOMAIN mkCreated :
          /\ mkCreated[i] \in SelfAndAncestors(mkPath)
          /\ mkFs0[mkCreated[i]] = "none"
          /\ mkFs[mkCreated[i]] = "dir"
          /\ IF i = 1
             THEN mkFs0[Dirname(mkCreated[i])] = "dir"
             ELSE mkCreated[i - 1] = Dirname(mkCreated[i])
    /\ mkPc \notin {"threw:ENOENT", "threw:EEXIST"}
    /\ (mkPc # "start" /\ mkPath = <<>>) =>
          (mkPc = "threw:parameter" /\ mkFs = mkFs0)
    /\ (mkPath # <<>> /\ NearestIsNotDirectory(mkPath)) =>
          /\ mkFs = mkFs0
          /\ mkPc # "returned"
          /\ mkPc \in {"start", "stat", "threw:conflict", "threw:ENOTDIR"}

\* C28 witness: mkdirP has returned after creating more than one directory.
C28_Witness ==
    /\ mkPc = "returned"
    /\ Len(mkCreated) > 1
    /\ mkFs0[ChainPath(1)] = "dir"

\* ------------------------------------------- direct-storage mode, continued
\* C32: in direct-storage mode a commit POST is issued only after the one
\* blob upload has completed and carries the archive size; with a base URL
\* it is issued as soon as the upload has completed; and saveCache ends well
\* only after a commit response with a success status.
C32_BlobUploadThenCommit ==
    BlobMode =>
        /\ (commits # <<>>) => (upPc = "returned" /\ blobUploads = 1)
        /\ \A i \in DOMAIN commits : commits[i] = fileSize
        /\ (upPc = "blob") => (commits = <<>> /\ savePc = "uploadFile")
        /\ (upPc = "returned" /\ Truthy(cacheUrl)) => commits # <<>>
        /\ (upPc = "threw") => (commits = <<>> /\ savePc = "threw")
        /\ (savePc = "done") =>
              /\ upPc = "returned"
              /\ commits # <<>>
              /\ IsSuccessStatusCode(commitStatus)

\* C32 witness: a direct-storage save ended well after its commit was sent
\* twice.
C32_Witness ==
    /\ BlobMode
    /\ savePc = "done"
    /\ Len(commits) > 1
    /\ fileSize > 0

\* C33: with a container name and a connection string reserveCache sends no
\* request and returns status code 0 with a null result, at once and without
\* throwing; getCacheEntry sends no request to the cache service.
C33_DirectStorageNoServiceCalls ==
    BlobMode =>
        /\ rsRequests = 0
        /\ rsAttempt = 0
        /\ rsPc \in {"start", "returned"}
        /\ (flowPc # "none") =>
              /\ rsPc = "returned"
              /\ rsResponse.statusCode = 0
              /\ rsResponse.cacheId = 0
        /\ lkRequests = 0
        /\ lkAttempt = 0
        /\ lkPc \in {"start", "listing", "returned"}

\* C33 witness: with a cache-service URL configured as well, the lookup and
\* the reservation have both returned in direct-storage mode.
C33_Witness ==
    /\ BlobMode
    /\ Truthy(cacheUrl)
    /\ lkPc = "returned"
    /\ rsPc = "returned"

\* C34: direct-storage lookup returns an entry iff a listed blob is named as
\* one of the keys; the cacheKey of the entry is one of the keys and the name
\* of a listed blob, and the entry has no archiveLocation.
C34_BlobLookupEntryIffNameMatches ==
    (DirectStorage /\ lkPc = "returned") =>
        /\ (lkResult.kind = "entry") <=>
              (\E i \in DOMAIN blobList : blobList[i] \in Range(keys))
        /\ (lkResult.kind # "entry") => lkResult = NullResult
        /\ (lkResult.kind = "entry") =>
              /\ lkResult.cacheKey \in Range(keys)
              /\ Listed(lkResult.cacheKey)
              /\ lkResult.archiveLocation = ""

\* C34 witness: the lookup returned a fallback key after passing a blob that
\* matches no key.
C34_Witness ==
    /\ DirectStorage
    /\ lkPc = "returned"
    /\ lkResult.kind = "entry"
    /\ lkResult.cacheKey # keys[1]
    /\ \E i \in DOMAIN blobList : blobList[i] \notin Range(keys)

\* ------------------------------------------------ termination of uploadFile
\* The workers of the chunked upload that are still in their loop.
InLoop == {w \in DOMAIN workers : workers[w].pc \in {"inflight", "sleeping"}}

\* C31: when every chunk upload returns, the chunked uploadFile settles and
\* every worker has left its loop for good; the workers have all completed
\* only with the cursor at or past the file size, no worker claims a range
\* with the cursor there, and at most ceil(F / C) ranges are ever claimed.
C31_UploadFileTerminates ==
    /\ (upPc = "awaitAll") ~> (upPc \in {"returned", "threw"})
    /\ (upPc = "awaitAll") ~> [](InLoop = {})
    /\ [](AllDone(workers) => offset >= fileSize)
    /\ [](Cardinality(ChunkStarts) <= Ceil(fileSize, maxChunkSize))
    /\ [][offset >= fileSize => ChunkStarts' = ChunkStarts]_vars

\* C31 witness: uploadFile returned after its workers claimed more ranges
\* than there are workers, one of them after a retry.
C31_Witness ==
    /\ upPc = "returned"
    /\ ~BlobMode
    /\ InLoop = {}
    /\ Cardinality(ChunkStarts) > concurrency
    /\ \E p \in patches : p.attempt > 1

\* ------------------------------------------------------------------ io: mv
\* The two paths mv is given name different entries of the file system; an
\* entry is missing, a directory or a regular file with its content.
NoEntry == [kind |-> "none", data |-> ""]
Directory == [kind |-> "dir", data |-> ""]
File(data) == [kind |-> "file", data |-> data]
MvSources == {File("source-data"), Directory, NoEntry}
MvDests == {File("dest-data"), Directory, NoEntry}

\* CopyOptions: force and recursive are optional booleans.
CopyOptions == [force : TriState, recursive : TriState]

\* Mutant of ReadCopyOptions: force is taken to be set whatever was given.
ReadCopyOptionsForce(options) ==
    [force |-> TRUE, recursive |-> options.recursive = "true"]

\* Lines 799-803: force defaults to true, recursive to false.
ReadCopyOptions(options) ==
    [force |-> IF options.force = "undefined" THEN TRUE
               ELSE options.force = "true",
     recursive |-> options.recursive = "true"]

\* ioUtil.isDirectory(source): false for a regular file, true for a
\* directory; for a missing path it rejects or answers false.
IsDirectoryOutcomes(entry) ==
    IF entry.kind = "file" THEN {"false"}
    ELSE IF entry.kind = "dir" THEN {"true"}
    ELSE {"false", "throws"}

\* Lines 531-535: the mode of the copy; without force the copy is exclusive
\* (COPYFILE_EXCL).
CopyExclusive(options) == ~ReadCopyOptions(options).force

\* fs.promises.copyFile(source, dest, mode): it is refused when the source
\* is missing, when dest is a directory, and in exclusive mode when dest
\* exists; otherwise it succeeds, is refused by the system before dest is
\* touched, or fails after dest was opened for writing.
CopyFileOutcomes(f, excl) ==
    IF f.source.kind # "file" THEN {"ENOENT"}
    ELSE IF f.dest.kind = "dir" THEN {"EISDIR"}
    ELSE IF excl /\ f.dest.kind # "none" THEN {"EEXIST"}
    ELSE {"ok", "EACCES", "broken:removed", "broken:partial"}

\* The file system after copyFile settled with outcome o: a copy that broke
\* after dest was opened leaves dest removed, or partly written when the
\* removal fails as well.
CopyFile(f, o) ==
    IF o = "ok" THEN [f EXCEPT !.dest = f.source]
    ELSE IF o = "broken:removed" THEN [f EXCEPT !.dest = NoEntry]
    ELSE IF o = "broken:partial" THEN [f EXCEPT !.dest = File("partial")]
    ELSE f

\* fs.promises.unlink(source), line 538.
Unlink(f) == [f EXCEPT !.source = NoEntry]

mvFrame == <<cfgVars, saveVars, dlVars, lkVars, rsVars, verVars, coreVars,
             mkPath, mkFailsafe, mkFs, mkFs0, mkPc, mkStack, mkTestDir,
             mkCreated>>

\* mv(source, dest, options) up to its first await (lines 508-515).
MvCall ==
    /\ mvPc = "start"
    /\ mvPc' = "isDirectory"
    /\ UNCHANGED <<mvOptions, mvFs, mvFs0, mvLog>>
    /\ UNCHANGED mvFrame

\* isDirectory(source) settles (lines 515-535): a directory is refused
\* without recursive and otherwise moved with its contents, which is not
\* followed further here; anything else is copied as a file.
IsDirectorySettles(r) ==
    /\ mvPc = "isDirectory"
    /\ r \in IsDirectoryOutcomes(mvFs.source)
    /\ mvPc' = IF r = "throws" THEN "threw:isDirectory"
               ELSE IF r = "true"
               THEN IF ReadCopyOptions(mvOptions).recursive
                    THEN "directory"
                    ELSE "threw:non-recursive"
               ELSE "copyFile"
    /\ UNCHANGED <<mvOptions, mvFs, mvFs0, mvLog>>
    /\ UNCHANGED mvFrame

\* copyFile settles (lines 531-538): mv goes on to unlink only when the
\* copy succeeded, and rejects with the error of the copy otherwise.
CopyFileSettles(o) ==
    /\ mvPc = "copyFile"
    /\ o \in CopyFileOutcomes(mvFs, CopyExclusive(mvOptions))
    /\ mvFs' = CopyFile(mvFs, o)
    /\ mvLog' = Append(mvLog, [call |-> "copyFile",
                               excl |-> CopyExclusive(mvOptions),
                               outcome |-> o])
    /\ mvPc' = IF o = "ok" THEN "unlink" ELSE "threw:copyFile"
    /\ UNCHANGED <<mvOptions, mvFs0>>
    /\ UNCHANGED mvFrame

\* unlink(source) settles (lines 537-539).
UnlinkSettles(ok) ==
    /\ mvPc = "unlink"
    /\ mvFs' = IF ok THEN Unlink(mvFs) ELSE mvFs
    /\ mvLog' = Append(mvLog, [call |-> "unlink", excl |-> FALSE,
                               outcome |-> IF ok THEN "ok" ELSE "EACCES"])
    /\ mvPc' = IF ok THEN "returned" ELSE "threw:unlink"
    /\ UNCHANGED <<mvOptions, mvFs0>>
    /\ UNCHANGED mvFrame

InitMv ==
    /\ OthersIdle
    /\ VersionIdle
    /\ CoreIdle
    /\ MkdirIdle
    /\ mvOptions \in CopyOptions
    /\ mvFs \in [source : MvSources, dest : MvDests]
    /\ mvFs0 = mvFs
    /\ mvPc = "start"
    /\ mvLog = <<>>

NextMv ==
    \/ MvCall
    \/ \E r \in {"true", "false", "throws"} : IsDirectorySettles(r)
    \/ \E o \in {"ok", "ENOENT", "EISDIR", "EEXIST", "EACCES",
                  "broken:removed", "broken:partial"} : CopyFileSettles(o)
    \/ \E ok \in BOOLEAN : UnlinkSettles(ok)

SpecMv == InitMv /\ [][NextMv]_vars

\* --------------------------------------------------------- properties of mv
\* The source was a regular file when mv was called.
RegularSource == mvFs0.source.kind = "file"
\* The copy was made.
CopySucceeded ==
    \E i \in DOMAIN mvLog :
        mvLog[i].call = "copyFile" /\ mvLog[i].outcome = "ok"
\* The copy failed before dest was opened for writing.
CopyRefused ==
    /\ mvPc = "threw:copyFile"
    /\ mvLog[Len(mvLog)].outcome
          \in {"ENOENT", "EISDIR", "EEXIST", "EACCES"}

\* C35 as stated: the source of a regular file is removed only after the
\* copy succeeded, and after a failed copy the source is still present and
\* a dest that existed is as it was.
C35_FailedCopyKeepsSourceAndDest ==
    RegularSource =>
        /\ (mvFs.source # mvFs0.source) =>
              (CopySucceeded /\ mvFs.dest = mvFs0.source)
        /\ (mvPc = "threw:copyFile") =>
              /\ mvFs.source = mvFs0.source
              /\ (mvFs0.dest # NoEntry) => mvFs.dest = mvFs0.dest

\* C35 amended: the source of a regular file is removed only by the unlink
\* that follows a successful copy; after a failed copy the source is still
\* present; without force an existing dest makes the copy fail and nothing
\* is changed, as after every copy refused before dest is written.
C35_SourceRemovedAfterCopyAndExclusiveKeepsDest ==
    RegularSource =>
        /\ (mvFs.source # mvFs0.source) =>
              /\ mvPc = "returned"
              /\ mvFs.source = NoEntry
              /\ CopySucceeded
              /\ mvFs.dest = mvFs0.source
        /\ \A i \in DOMAIN mvLog :
              /\ (mvLog[i].call = "unlink") =>
                    (i = 2 /\ mvLog[1].call = "copyFile"
                           /\ mvLog[1].outcome = "ok")
              /\ (mvLog[i].call = "copyFile") =>
                    (i = 1 /\ (mvLog[i].excl <=> mvOptions.force = "false"))
        /\ (mvPc = "returned") => mvFs.source = NoEntry
        /\ (mvPc = "threw:copyFile") => mvFs.source = mvFs0.source
        /\ CopyRefused => mvFs = mvFs0
        /\ (mvOptions.force = "false" /\ mvFs0.dest # NoEntry) =>
              /\ mvFs = mvFs0
              /\ mvPc \in {"start", "isDirectory", "copyFile",
                            "threw:copyFile"}

\* C35 witness: without force, the copy of a regular file onto an existing
\* file has failed.
C35_Witness ==
    /\ RegularSource
    /\ mvOptions.force = "false"
    /\ mvFs0.dest = File("dest-data")
    /\ mvPc = "threw:copyFile"
    /\ mvLog[1].outcome = "EEXIST"

====
